---- MODULE Spec2Model ----
(***************************************************************************)
(* Model of the russh-sftp client request multiplexer                      *)
(* (src/src/client/rawsession.rs) and of the driver tasks that feed it     *)
(* (src/src/client/mod.rs).                                                *)
(*                                                                         *)
(* Representation notes                                                    *)
(*  - Option<T> is a sequence of length 0 (None) or 1 (Some(v)).           *)
(*  - u64 values of the Wrapping<u64> handle counter are held as their     *)
(*    two's-complement (i64) representative, so 2^64-1 is -1, and are      *)
(*    compared with the unsigned order UGe.  This is exact for every value *)
(*    within 2^63 of zero on either side.                                  *)
(*  - a oneshot channel is the receiver slot rx[t] of the awaiting task t; *)
(*    the Sender kept in the pending list names that task (Some(t)), or is *)
(*    None once the receiver has been fdrop.                             *)
(***************************************************************************)
EXTENDS Integers, Sequences, FiniteSets, TLC

\* ------------------------------------------------------------------ bounds
\* Request ids handed out in one run (guards use_next_id).
MaxReqs == 2
\* Entries the pending list may hold (guards init, which takes no id).
MaxPending == 2
\* Frames waiting in the outbound queue.
MaxQueue == 1
\* Frames pushed onto the outbound queue when the driver is looked at alone.
MaxPushes == 3
\* Frames waiting in the outbound queue when the driver is looked at alone.
MaxBacklog == 2
\* Reads of the closed stream that are counted.
MaxEofReads == 2
\* Requests a File sends when it is looked at alone.
MaxFileReqs == 3
\* Name replies a server gives to one read_dir.
MaxNames == 2
\* Frames the server reads from its stream.
MaxFrames == 2

\* ------------------------------------------------------------- value sets
None == <<>>
Some(v) == <<v>>

\* Caller tasks that hold a reference to the session.  The borrow rules of
\* the request methods (&mut self) let two calls overlap only when both are
\* init (&self), so a pair of tasks shows every overlap there is.
Tasks == {1, 2}

\* Protocol version carried by a Version packet (protocol/mod.rs).
VERSION == 3

NoPkt == [kind |-> "NoPkt", id |-> None, code |-> "-"]
Pkt(k, i, c) == [kind |-> k, id |-> i, code |-> c]

\* Ids a server may echo: every id the client can allocate.
ReplyIds == 0..(MaxReqs - 1)

\* Status codes the server answers with in this model.
StatusCodes == {"Ok", "Failure"}

\* Reply packets the server may put on the stream.
InPackets ==
    {Pkt("Version", None, "-")}
    \cup {Pkt(k, Some(i), "-") : k \in {"Handle", "Data"}, i \in ReplyIds}
    \cup {Pkt("Status", Some(i), c) : i \in ReplyIds, c \in StatusCodes}

\* Frames of the stream that are no reply: one that does not decode, and a
\* request packet (an Open stands for them), which carries an id as well,
\* here the id of the session's first request.
BadFrames == {Pkt("Undecodable", None, "-"), Pkt("Open", Some(0), "-")}

\* Request lengths offered to read and write.
Lens == {2, 3}

\* Values a limits@openssh.com reply may carry per field (0 means unset).
\* <<max_read_len, max_write_len, max_open_handles>>
ExtLimits == {<<0, 0, 0>>, <<2, 2, 1>>}

Methods == {"init", "open", "opendir", "close", "read", "write"}

\* Result values of a call: tag is the Ok/Err(kind) of SftpResult.
Out(tag, msg, pkt) == [tag |-> tag, msg |-> msg, pkt |-> pkt]
NoOut == Out("-", "-", NoPkt)

\* Receiver slot values.
RxEmpty == [st |-> "Empty", val |-> NoOut]
RxClosed == [st |-> "Closed", val |-> NoOut]
RxVal(o) == [st |-> "Val", val |-> o]

\* The empty sentinel frame of close_session.
Sentinel == [kind |-> "Empty", id |-> None, len |-> 0]
Frame(k, i, l) == [kind |-> k, id |-> i, len |-> l]

\* Chunk sizes of File when the server reported no limit (fs/file.rs).
MAX_READ_LENGTH == 261120
MAX_WRITE_LENGTH == 261120

\* Buffer lengths handed to poll_write: around the limits a server reports
\* here, ten times such a limit, and around and ten times the default.
BufLens == {1, 2, 3, 20, 261120, 261121, 2611200}

\* Space remaining in the ReadBuf handed to poll_read: around the limits a
\* server reports here, ten times such a limit, and above the default.
RemLens == {1, 2, 3, 20, 261121}

\* Numbers of bytes a Data reply may carry: none, and around the lengths
\* asked for.
DataLens == {0, 1, 2, 3}

\* File::new
NewFile ==
    [pos |-> 0, closed |-> FALSE, f_read |-> None, f_seek |-> None,
     f_write |-> None, f_flush |-> None, f_shutdown |-> None,
     fsync |-> FALSE]

\* Results of a poll of the File: Poll::Pending, Poll::Ready(Ok(n)) or
\* Poll::Ready(Err(io::Error)), with the length of the buffer polled with.
Polled(op, buf, res, n) == [op |-> op, buf |-> buf, res |-> res, n |-> n]
NoPoll == Polled("-", 0, "-", 0)

\* SftpSession::read_dir not yet called: the requests it has sent, the
\* entries the Name replies brought (got, in order of arrival), its vector
\* files, and of the ReadDir it returns the queue entries and what next()
\* has yielded.
NewReadDir ==
    [pc |-> "idle", sent |-> <<>>, got |-> <<>>, files |-> <<>>,
     entries |-> <<>>, yielded |-> <<>>]

\* SftpSession::new not yet called: the requests it has sent, the extensions
\* of the Version it got, the LimitsExtension it got, and the Extensions it
\* builds for its files.
NewSftp ==
    [pc |-> "idle", sent |-> <<>>, advertised |-> None, reported |-> None,
     fsync |-> FALSE, statvfs |-> FALSE, ext_limits |-> None]

\* The server before its first frame: the request it is handling, what it
\* has read from and written to the stream, in order, whether a read has
\* found the stream at its end and how long the log was then, and whether
\* the loop has logged an error.
NewServer ==
    [pc |-> "reading", request |-> NoPkt, log |-> <<>>, eof |-> FALSE,
     eofAt |-> 0, warned |-> FALSE]

\* read_packet not yet called: the maximum its caller is configured with,
\* the length header it read, the length of the buffer it made, the bytes
\* of the body it has read into it, the bytes the stream holds after the
\* header, and what it returned.
NewReader ==
    [pc |-> "header", max_len |-> 0, length |-> 0, allocated |-> 0,
     got |-> 0, avail |-> 0, res |-> "-"]

\* Nothing encoded or decoded yet: the value given to the encoder, the
\* bytes it made of it, the bytes that follow them in what the decoder is
\* given, and what the decoder made of it.
NewCodec ==
    [pc |-> "idle", value |-> <<>>, bytes |-> <<>>, extra |-> <<>>,
     decoded |-> <<>>]

VARIABLES
    requests,     \* SharedData: Vec<(Option<u32>, oneshot::Sender)>
    version,      \* SessionInner.version: Option<u32>
    next_req_id,  \* RawSftpSession.next_req_id
    handles,      \* RawSftpSession.handles: Wrapping<u64>
    limits,       \* RawSftpSession.options.limits
    txq,          \* frames in the unbounded mpsc queue
    txClosed,     \* the queue's receiver has been dropped
    task,         \* per caller task: the call it is in and its position
    rx,           \* per caller task: its oneshot receiver
    last,         \* what the step just taken returned, if it returned: a
                  \* request method to its caller, or reply() to the
                  \* reader loop
    driver,       \* which run() the build has: "split" (client/mod.rs, a
                  \* reader task and a writer task) or "select" (client.rs,
                  \* one task selecting between reading and writing)
    eof,          \* the read side of the stream is at end of stream
    eofReads,     \* reads of the stream that found it at end of stream
    rdEnded,      \* the reader loop has taken its break
    wire,         \* what the writer has done to the stream, in order
    pushed,       \* every frame pushed onto the outbound queue, in order
    file,         \* a File: pos and the slots of its FileState
    fsent,        \* the requests the File has made of the session, in order
    fret,         \* what the call of the File just made returned
    rdir,         \* a call of SftpSession::read_dir and the ReadDir it returns
    sess,         \* a call of SftpSession::new
    srv,          \* the server's loop over its stream
    reader,       \* a call of read_packet
    codec,        \* a value put through the encoder and the decoder
    late,         \* history: the ids of the calls of send that have
                  \* returned Timeout
    fdrop         \* Drop for File: "no" while the File is alive, "spawned"
                  \* once it is dropped with its close task spawned and not
                  \* yet run, "done" once dropped with nothing left to run

\* The state of run() that only the specification of the driver follows.
drv == <<driver, eof, eofReads, rdEnded, wire, pushed>>

\* The state of a File, which only the specification of File follows.
fil == <<file, fsent, fret, fdrop>>

\* The state of the parts that have a specification of their own.
others == <<rdir, sess, srv, reader, codec, late>>

vars == <<requests, version, next_req_id, handles, limits, txq, txClosed,
          task, rx, last, driver, eof, eofReads, rdEnded, wire, pushed,
          file, fsent, fret, fdrop, rdir, sess, srv, reader, codec,
          late>>

\* ------------------------------------------------------------ pure parts

\* Unsigned order of two u64 values held as i64 representatives.
UGe(a, b) == IF (a < 0) = (b < 0) THEN a >= b ELSE a < 0

\* Limits::default()
DefaultLimits == [read_len |-> None, write_len |-> None, open_handles |-> None]

\* One field of From<LimitsExtension> for Limits: zero means unset.
LimitField(v) == IF v > 0 THEN Some(v) ELSE None

\* From<LimitsExtension> for Limits
LimitsFrom(ext) ==
    [read_len |-> LimitField(ext.max_read_len),
     write_len |-> LimitField(ext.max_write_len),
     open_handles |-> LimitField(ext.max_open_handles)]

LimitsExtensions ==
    {[max_read_len |-> r, max_write_len |-> w, max_open_handles |-> h] :
        <<r, w, h>> \in ExtLimits}

\* Position, were the id not compared: the first entry takes every reply.
Position_AnyId(reqs, id) == IF Len(reqs) > 0 THEN 1 ELSE 0

\* requests.iter().position(|&(i, _)| i == id), 1-based, 0 when absent.
Position(reqs, id) ==
    IF \E i \in 1..Len(reqs) : reqs[i].id = id
    THEN CHOOSE i \in 1..Len(reqs) :
            /\ reqs[i].id = id
            /\ \A j \in 1..(i - 1) : reqs[j].id # id
    ELSE 0

\* RemoveAt, were the delivered entry left in the list.
RemoveAt_Keep(reqs, idx) == reqs

\* Vec::remove(idx)
RemoveAt(reqs, idx) ==
    [i \in 1..(Len(reqs) - 1) |-> IF i < idx THEN reqs[i] ELSE reqs[i + 1]]

\* Validate, were the version seen so far not looked at.
Validate_AlwaysOk(id, ver) == "Ok"

\* The validate value of SessionInner::reply.
Validate(id, ver) ==
    IF id # None /\ ver = None THEN "UnexpectedPacket"
    ELSE IF id = None /\ ver # None THEN "DuplicateVersion"
    ELSE "Ok"

\* Handover, were the packet handed over whatever validate says.
Handover_Packet(validate, packet) == Out("Ok", "-", packet)

\* validate.clone().map(|()| packet): what is handed to the oneshot sender.
Handover(validate, packet) ==
    IF validate = "Ok" THEN Out("Ok", "-", packet)
    ELSE IF validate = "UnexpectedPacket" THEN Out("UnexpectedPacket", "-", NoPkt)
    ELSE Out("UnexpectedBehavior", "Duplicate version", NoPkt)

\* Retain, were the timeout path to leave the list alone.
Retain_KeepAll(reqs, id) == reqs

\* requests.retain(|&(i, _)| i != id) on the timeout path of send.
Retain(reqs, id) == SelectSeq(reqs, LAMBDA e : e.id # id)

\* NextIdAfter, were the counter not advanced.
NextIdAfter_Same(n) == n

\* The counter value use_next_id leaves behind.
NextIdAfter(n) == n + 1

\* options.limits.open_handles.is_some_and(|h| self.handles >= Wrapping(h))
HandleLimitReached(lim, h) ==
    lim.open_handles # None /\ UGe(h, lim.open_handles[1])

\* ReadLimited, were the comparison >= instead of >.
ReadLimited_Ge(lim, len) == lim.read_len # None /\ len >= lim.read_len[1]

\* options.limits.read_len.is_some_and(|r| len as u64 > r)
ReadLimited(lim, len) == lim.read_len # None /\ len > lim.read_len[1]

\* options.limits.write_len.is_some_and(|w| data.len() as u64 > w)
WriteLimited(lim, len) == lim.write_len # None /\ len > lim.write_len[1]

\* open/opendir: if let Packet::Handle(_) = result { self.handles += 1 }
HandlesAfterOpen(h, pkt) == IF pkt.kind = "Handle" THEN h + 1 ELSE h

\* close: if let Packet::Status(_) = &result { self.handles -= 1 }
HandlesAfterClose(h, pkt) == IF pkt.kind = "Status" THEN h - 1 ELSE h

\* into_with_status!(result, $packet)
IntoWithStatus(pkt, want) ==
    IF pkt.kind = want THEN Out("Ok", "-", pkt)
    ELSE IF pkt.kind = "Status" THEN Out("Status", "-", pkt)
    ELSE Out("UnexpectedPacket", "-", NoPkt)

\* into_status!(result)
IntoStatus(pkt) ==
    IF pkt.kind = "Status" /\ pkt.code = "Ok" THEN Out("Ok", "-", pkt)
    ELSE IF pkt.kind = "Status" THEN Out("Status", "-", pkt)
    ELSE Out("UnexpectedPacket", "-", NoPkt)

\* Request methods by the conversion they apply to the reply.
HandleMethods == {"open", "opendir"}
DataMethods == {"read"}
NameMethods == {"readdir", "realpath", "readlink"}
AttrsMethods == {"lstat", "fstat", "stat"}
StatusMethods == {"close", "write", "setstat", "fsetstat", "remove", "mkdir",
                  "rmdir", "rename", "symlink", "fsync"}
TypedMethods ==
    HandleMethods \cup DataMethods \cup NameMethods \cup AttrsMethods
        \cup StatusMethods

\* What a request method makes of the packet send() returned.
TypedResult(method, pkt) ==
    CASE method = "init" ->
            IF pkt.kind = "Version" THEN Out("Ok", "-", pkt)
            ELSE Out("UnexpectedPacket", "-", NoPkt)
      [] method \in HandleMethods -> IntoWithStatus(pkt, "Handle")
      [] method \in DataMethods -> IntoWithStatus(pkt, "Data")
      [] method \in NameMethods -> IntoWithStatus(pkt, "Name")
      [] method \in AttrsMethods -> IntoWithStatus(pkt, "Attrs")
      [] method \in StatusMethods -> IntoStatus(pkt)

\* The handle counter after a request method has seen the packet.
HandlesAfter(method, h, pkt) ==
    CASE method \in {"open", "opendir"} -> HandlesAfterOpen(h, pkt)
      [] method = "close" -> HandlesAfterClose(h, pkt)
      [] OTHER -> h

\* Packet kind each request method puts on the wire.
RequestKind(method) ==
    CASE method = "init" -> "Init"
      [] method = "open" -> "Open"
      [] method = "opendir" -> "OpenDir"
      [] method = "close" -> "Close"
      [] method = "read" -> "Read"
      [] method = "write" -> "Write"

\* ------------------------------------------------------------------ state

IdleTask == [pc |-> "idle", method |-> "-", id |-> None]

\* The record of a returned operation: the method ("reply" for the driver's
\* SessionInner::reply), the id it was about (of the request sent, or of the
\* packet handed to reply) and the Ok/Err it returned.
Returned(method, id, out) ==
    [method |-> method, id |-> id, tag |-> out.tag, msg |-> out.msg]
NoReturn == Returned("-", None, NoOut)

TypeOK ==
    /\ \A i \in 1..Len(requests) :
          /\ requests[i].id \in {None} \cup {Some(n) : n \in 0..MaxReqs}
          /\ requests[i].tx \in {None} \cup {Some(t) : t \in Tasks}
    /\ version \in {None, Some(VERSION)}
    /\ next_req_id \in 0..MaxReqs
    /\ handles \in Int
    /\ limits \in {LimitsFrom(e) : e \in LimitsExtensions}
    /\ txClosed \in BOOLEAN
    /\ \A t \in Tasks :
          /\ task[t].pc \in {"idle", "waiting", "timedout"}
          /\ rx[t].st \in {"Empty", "Closed", "Val"}

\* RawSftpSession::new
Init ==
    /\ requests = <<>>
    /\ version = None
    /\ next_req_id = 0
    /\ handles = 0
    /\ limits = DefaultLimits
    /\ txq = <<>>
    /\ txClosed = FALSE
    /\ task = [t \in Tasks |-> IdleTask]
    /\ rx = [t \in Tasks |-> RxEmpty]
    /\ last = NoReturn
    /\ driver = "split"
    /\ eof = FALSE
    /\ eofReads = 0
    /\ rdEnded = FALSE
    /\ wire = <<>>
    /\ pushed = <<>>
    /\ file = NewFile
    /\ fsent = <<>>
    /\ fret = NoPoll
    /\ fdrop = "no"
    /\ rdir = NewReadDir
    /\ sess = NewSftp
    /\ srv = NewServer
    /\ reader = NewReader
    /\ codec = NewCodec
    /\ late = {}

\* RawSftpSession::new over either run(), the stream and the writer's log
\* followed as well.
DriverInit ==
    /\ requests = <<>>
    /\ version = None
    /\ next_req_id = 0
    /\ handles = 0
    /\ limits = DefaultLimits
    /\ txq = <<>>
    /\ txClosed = FALSE
    /\ task = [t \in Tasks |-> IdleTask]
    /\ rx = [t \in Tasks |-> RxEmpty]
    /\ last = NoReturn
    /\ driver \in {"split", "select"}
    /\ eof = FALSE
    /\ eofReads = 0
    /\ rdEnded = FALSE
    /\ wire = <<>>
    /\ pushed = <<>>
    /\ file = NewFile
    /\ fsent = <<>>
    /\ fret = NoPoll
    /\ fdrop = "no"
    /\ rdir = NewReadDir
    /\ sess = NewSftp
    /\ srv = NewServer
    /\ reader = NewReader
    /\ codec = NewCodec
    /\ late = {}

\* A task is inside a call (its future is alive).
Live(t) == task[t].pc \in {"waiting", "timedout"}

\* Caller tasks are interchangeable and a task outside a call holds no
\* state, so a new call is always given to the first task that is free.
FirstFree(t) == ~Live(t) /\ \A u \in 1..(t - 1) : Live(u)

\* &mut self: no other borrow of the session is alive.
CanBorrowMut(t) == FirstFree(t) /\ \A u \in Tasks : ~Live(u)

\* &self: no exclusive borrow is alive (init and close_session take &self).
CanBorrowShared(t) ==
    /\ FirstFree(t)
    /\ \A u \in Tasks : Live(u) => task[u].method = "init"

\* A receiver is dropped, were its sender taken out of the list with it.
DropReceiver_Remove(reqs, t) == SelectSeq(reqs, LAMBDA e : e.tx # Some(t))

\* A receiver is dropped: every sender for it stays in the list, closed.
DropReceiver(reqs, t) ==
    [i \in 1..Len(reqs) |->
        IF reqs[i].tx = Some(t) THEN [reqs[i] EXCEPT !.tx = None] ELSE reqs[i]]

\* Send, were the result of the push onto the queue dropped: the call waits
\* for a reply whether or not the frame went out.
Send_IgnoreClosed(t, method, id, len) ==
    /\ Len(requests) < MaxPending
    /\ Len(txq) < MaxQueue
    /\ requests' = Append(requests, [id |-> id, tx |-> Some(t)])
    /\ task' = [task EXCEPT ![t] =
           [pc |-> "waiting", method |-> method, id |-> id]]
    /\ last' = NoReturn
    /\ txq' = IF txClosed THEN txq
              ELSE Append(txq, Frame(RequestKind(method), id, len))
    /\ rx' = [rx EXCEPT ![t] = RxEmpty]
    /\ UNCHANGED <<version, txClosed>>

\* RawSftpSession::send up to its await: the entry is pushed, then the frame
\* is pushed onto the outbound queue; a closed queue makes the call return at
\* once (the ? on tx.send), the pushed entry staying behind.  The two pushes
\* have no await point between them.
Send(t, method, id, len) ==
    /\ Len(requests) < MaxPending
    /\ Len(txq) < MaxQueue
    /\ IF txClosed
       THEN /\ requests' = Append(requests, [id |-> id, tx |-> None])
            /\ task' = [task EXCEPT ![t] = IdleTask]
            /\ last' = Returned(method, id,
                                 Out("UnexpectedBehavior", "SendError", NoPkt))
            /\ txq' = txq
       ELSE /\ requests' = Append(requests, [id |-> id, tx |-> Some(t)])
            /\ task' = [task EXCEPT ![t] =
                   [pc |-> "waiting", method |-> method, id |-> id]]
            /\ last' = NoReturn
            /\ txq' = Append(txq, Frame(RequestKind(method), id, len))
    /\ rx' = [rx EXCEPT ![t] = RxEmpty]
    /\ UNCHANGED <<version, txClosed>>

\* A request method returns Limited before anything is sent.
ReturnLimited(t, method) ==
    /\ last' = Returned(method, None, Out("Limited", "-", NoPkt))
    /\ UNCHANGED <<requests, version, next_req_id, handles, limits, txq,
                   txClosed, task, rx>>

\* RawSftpSession::init
InitCall(t) ==
    /\ UNCHANGED <<drv, fil, others>>
    /\ CanBorrowShared(t)
    /\ Send(t, "init", None, 0)
    /\ UNCHANGED <<next_req_id, handles, limits>>

\* RawSftpSession::open and RawSftpSession::opendir, up to the await
Open(t, method) ==
    /\ UNCHANGED <<drv, fil, others>>
    /\ method \in {"open", "opendir"}
    /\ CanBorrowMut(t)
    /\ IF HandleLimitReached(limits, handles)
       THEN ReturnLimited(t, method)
       ELSE /\ next_req_id < MaxReqs
            /\ next_req_id' = NextIdAfter(next_req_id)
            /\ Send(t, method, Some(next_req_id), 0)
            /\ UNCHANGED <<handles, limits>>

\* RawSftpSession::close, up to the await
Close(t) ==
    /\ UNCHANGED <<drv, fil, others>>
    /\ CanBorrowMut(t)
    /\ next_req_id < MaxReqs
    /\ next_req_id' = NextIdAfter(next_req_id)
    /\ Send(t, "close", Some(next_req_id), 0)
    /\ UNCHANGED <<handles, limits>>

\* RawSftpSession::read, up to the await
Read(t, len) ==
    /\ UNCHANGED <<drv, fil, others>>
    /\ CanBorrowMut(t)
    /\ IF ReadLimited(limits, len)
       THEN ReturnLimited(t, "read")
       ELSE /\ next_req_id < MaxReqs
            /\ next_req_id' = NextIdAfter(next_req_id)
            /\ Send(t, "read", Some(next_req_id), len)
            /\ UNCHANGED <<handles, limits>>

\* RawSftpSession::write, up to the await
Write(t, len) ==
    /\ UNCHANGED <<drv, fil, others>>
    /\ CanBorrowMut(t)
    /\ IF WriteLimited(limits, len)
       THEN ReturnLimited(t, "write")
       ELSE /\ next_req_id < MaxReqs
            /\ next_req_id' = NextIdAfter(next_req_id)
            /\ Send(t, "write", Some(next_req_id), len)
            /\ UNCHANGED <<handles, limits>>

\* send's await yields Ok(result): the reply (or the error the driver handed
\* over, or RecvError when the sender was dropped) comes back to the request
\* method, which applies its reply handling and returns.
Return(t) ==
    /\ UNCHANGED <<drv, fil, others>>
    /\ task[t].pc = "waiting"
    /\ rx[t].st \in {"Val", "Closed"}
    /\ LET m == task[t].method
           v == rx[t].val
           i == task[t].id
       IN  IF rx[t].st = "Closed"
           THEN /\ last' = Returned(m, i,
                            Out("UnexpectedBehavior", "RecvError", NoPkt))
                /\ handles' = handles
           ELSE IF v.tag # "Ok"
           THEN /\ last' = Returned(m, i, v)
                /\ handles' = handles
           ELSE /\ last' = Returned(m, i, TypedResult(m, v.pkt))
                /\ handles' = HandlesAfter(m, handles, v.pkt)
    /\ task' = [task EXCEPT ![t] = IdleTask]
    /\ rx' = [rx EXCEPT ![t] = RxEmpty]
    /\ UNCHANGED <<requests, version, next_req_id, limits, txq, txClosed>>

\* timeout(..) elapses with nothing in the receiver: send takes the Err arm
\* and waits for the lock of the pending list.
Elapsed(t) ==
    /\ UNCHANGED <<drv, fil, others>>
    /\ task[t].pc = "waiting"
    /\ rx[t].st = "Empty"
    /\ task' = [task EXCEPT ![t].pc = "timedout"]
    /\ last' = NoReturn
    /\ UNCHANGED <<requests, version, next_req_id, handles, limits, txq,
                   txClosed, rx>>

\* The Err arm of send: retain drops every entry with the call's id, which
\* closes the channel of any other task waiting under that id; Timeout.
SendErrArm(t) ==
    /\ task[t].pc = "timedout"
    /\ requests' = Retain(requests, task[t].id)
    /\ task' = [task EXCEPT ![t] = IdleTask]
    /\ last' = Returned(task[t].method, task[t].id, Out("Timeout", "-", NoPkt))
    /\ rx' = [u \in Tasks |->
                IF u = t THEN RxEmpty
                ELSE IF /\ \E i \in 1..Len(requests) :
                              requests[i].tx = Some(u) /\ requests[i].id = task[t].id
                        /\ rx[u].st = "Empty"
                     THEN RxClosed
                     ELSE rx[u]]
    /\ UNCHANGED <<version, next_req_id, handles, limits, txq, txClosed>>

Reap(t) ==
    /\ UNCHANGED <<drv, fil, others>>
    /\ SendErrArm(t)

\* The caller drops the future of a call at one of its await points.
Cancel(t) ==
    /\ UNCHANGED <<drv, fil, others>>
    /\ Live(t)
    /\ requests' = DropReceiver(requests, t)
    /\ task' = [task EXCEPT ![t] = IdleTask]
    /\ rx' = [rx EXCEPT ![t] = RxEmpty]
    /\ last' = NoReturn
    /\ UNCHANGED <<version, next_req_id, handles, limits, txq, txClosed>>

\* RawSftpSession::set_limits
SetLimits(t, ext) ==
    /\ UNCHANGED <<drv, fil, others>>
    /\ CanBorrowMut(t)
    /\ limits' = LimitsFrom(ext)
    /\ last' = NoReturn
    /\ UNCHANGED <<requests, version, next_req_id, handles, txq, txClosed,
                   task, rx>>

\* RawSftpSession::close_session
CloseSession(t) ==
    /\ UNCHANGED <<drv, fil, others>>
    /\ CanBorrowShared(t)
    /\ IF txClosed
       THEN txq' = txq
       ELSE Len(txq) < MaxQueue /\ txq' = Append(txq, Sentinel)
    /\ last' = Returned("close_session", None, Out("Ok", "-", NoPkt))
    /\ UNCHANGED <<requests, version, next_req_id, handles, limits, txClosed,
                   task, rx>>

\* SessionInner::reply
Reply(id, packet) ==
    LET idx == Position(requests, id)
        validate == Validate(id, version)
    IN  IF idx # 0
        THEN /\ requests' = RemoveAt(requests, idx)
             /\ rx' = IF requests[idx].tx = None THEN rx
                      ELSE [rx EXCEPT ![requests[idx].tx[1]] =
                               RxVal(Handover(validate, packet))]
             /\ last' = Returned("reply", id, Handover(validate, NoPkt))
        ELSE /\ last' = Returned("reply", id,
                      Out("UnexpectedBehavior", "unknown recipient", NoPkt))
             /\ UNCHANGED <<requests, rx>>

\* The reader goes on reading: it has not taken its break and, in the
\* one-task run() of client.rs, the loop has not been left at the sentinel.
ReaderRunning == ~rdEnded /\ ~(driver = "select" /\ txClosed)

\* IsReplyKind, were every packet that decodes handed to reply().
IsReplyKind_Any(kind) == TRUE

\* The arms of execute_handler that go to a Handler method.
IsReplyKind(kind) ==
    kind \in {"Version", "Status", "Handle", "Data", "Name", "Attrs",
              "ExtendedReply"}

\* The reader loop of run: one inbound frame goes through execute_handler:
\* Packet::try_from fails on a frame that does not decode, a packet of the
\* reply kinds goes to its Handler method, any other is refused.  Whatever
\* comes back, the loop goes on.
DriverRead(packet) ==
    /\ packet \in InPackets \cup BadFrames
    /\ ReaderRunning
    /\ ~eof
    /\ UNCHANGED <<drv, fil, others>>
    /\ IF packet.kind = "Undecodable"
       THEN /\ last' = Returned("execute_handler", None,
                           Out("UnexpectedBehavior", "BadMessage", NoPkt))
            /\ UNCHANGED <<requests, rx>>
       ELSE IF ~IsReplyKind(packet.kind)
       THEN /\ last' = Returned("execute_handler", packet.id,
                           Out("UnexpectedBehavior", "could not be processed",
                               NoPkt))
            /\ UNCHANGED <<requests, rx>>
       ELSE Reply(packet.id, packet)
    /\ version' = IF packet.kind = "Version" /\ last'.tag = "Ok"
                  THEN Some(VERSION) ELSE version
    /\ UNCHANGED <<next_req_id, handles, limits, txq, txClosed, task>>

\* The writer loop of run: one frame is taken off the queue; the empty
\* sentinel shuts the stream down and ends the loop, dropping the receiver.
DriverWrite ==
    /\ UNCHANGED <<drv, fil, others>>
    /\ ~txClosed
    /\ txq # <<>>
    /\ IF Head(txq) = Sentinel
       THEN txClosed' = TRUE /\ txq' = <<>>
       ELSE txClosed' = FALSE /\ txq' = Tail(txq)
    /\ last' = NoReturn
    /\ UNCHANGED <<requests, version, next_req_id, handles, limits, task, rx>>

Next ==
    \/ \E t \in Tasks : InitCall(t)
    \/ \E t \in Tasks, m \in {"open", "opendir"} : Open(t, m)
    \/ \E t \in Tasks : Close(t)
    \/ \E t \in Tasks, len \in Lens : Read(t, len)
    \/ \E t \in Tasks, len \in Lens : Write(t, len)
    \/ \E t \in Tasks : Return(t)
    \/ \E t \in Tasks : Elapsed(t)
    \/ \E t \in Tasks : Reap(t)
    \/ \E t \in Tasks : Cancel(t)
    \/ \E t \in Tasks, ext \in LimitsExtensions : SetLimits(t, ext)
    \/ \E t \in Tasks : CloseSession(t)
    \/ \E packet \in InPackets \cup BadFrames : DriverRead(packet)
    \/ DriverWrite

Spec == Init /\ [][Next]_vars

\* The Err arm of send, with the id of the call that returns Timeout put
\* on record.
ReapRecorded(t) ==
    /\ UNCHANGED <<drv, fil, rdir, sess, srv, reader, codec>>
    /\ SendErrArm(t)
    /\ late' = late \cup {task[t].id}

LateNext ==
    \/ \E t \in Tasks : InitCall(t)
    \/ \E t \in Tasks, m \in {"open", "opendir"} : Open(t, m)
    \/ \E t \in Tasks : Close(t)
    \/ \E t \in Tasks, len \in Lens : Read(t, len)
    \/ \E t \in Tasks, len \in Lens : Write(t, len)
    \/ \E t \in Tasks : Return(t)
    \/ \E t \in Tasks : Elapsed(t)
    \/ \E t \in Tasks : ReapRecorded(t)
    \/ \E t \in Tasks : Cancel(t)
    \/ \E t \in Tasks, ext \in LimitsExtensions : SetLimits(t, ext)
    \/ \E t \in Tasks : CloseSession(t)
    \/ \E packet \in InPackets \cup BadFrames : DriverRead(packet)
    \/ DriverWrite

\* Spec with the timeouts on record.
LateSpec == Init /\ [][LateNext]_vars

\* Spec with the scheduling the runtime gives a call that is waiting: the
\* timer of timeout(..) fires, the lock of the pending list is granted, and a
\* task whose receiver holds a value is polled.
LiveSpec ==
    /\ Spec
    /\ \A t \in Tasks :
          WF_vars(Elapsed(t)) /\ WF_vars(Reap(t)) /\ WF_vars(Return(t))

\* ------------------------------------------------------- run(), in isolation
\* The driver with its surroundings reduced to what it sees of them: frames
\* pushed onto its queue by holders of the sender, and the stream.  Spec
\* follows the callers over the run() whose reader outlives the writer, with
\* the stream never at its end; what the callers can see under the other
\* run() is among its behaviours (no reply arrives once the writer ended).

\* The frames a holder of the sender pushes: a request frame, told from the
\* others by its place in the order of pushes, or the empty sentinel.
PushFrames == {Frame("Request", Some(Len(pushed)), 0), Sentinel}

\* Entries of the writer's log.
Written(f, whole) == [op |-> "write_all", frame |-> f, whole |-> whole]
Shutdown == [op |-> "shutdown", frame |-> Sentinel, whole |-> TRUE]

\* What std::io::Error becomes at the ? of read_packet: the From impl of
\* error.rs, which looks at no kind.
IoErrorInto(kind) == "Internal"

\* tx.send(bytes) by RawSftpSession::send or close_session.  On a closed
\* queue the push fails and leaves nothing behind.
TxSend(f) ==
    /\ f \in PushFrames
    /\ ~txClosed
    /\ Len(pushed) < MaxPushes
    /\ Len(txq) < MaxBacklog
    /\ txq' = Append(txq, f)
    /\ pushed' = Append(pushed, f)
    /\ last' = NoReturn
    /\ UNCHANGED <<requests, version, next_req_id, handles, limits, txClosed,
                   task, rx, driver, eof, eofReads, rdEnded, wire>>
    /\ UNCHANGED <<fil, others>>

\* One turn of the writer: rx.recv() yields a frame; the empty one shuts
\* the stream down and leaves the loop (dropping the receiver, and with it
\* whatever is still queued); any other is handed to write_all, whose
\* result is dropped (let _ =), and the loop goes on.
WriterStep(ok) ==
    /\ ~txClosed
    /\ txq # <<>>
    /\ IF Head(txq) = Sentinel
       THEN /\ ok
            /\ wire' = Append(wire, Shutdown)
            /\ txClosed' = TRUE
            /\ txq' = <<>>
            /\ last' = NoReturn
       ELSE /\ wire' = Append(wire, Written(Head(txq), ok))
            /\ txClosed' = FALSE
            /\ txq' = Tail(txq)
            /\ last' = Returned("write_all", Head(txq).id,
                                 Out(IF ok THEN "Ok" ELSE "IO", "-", NoPkt))
    /\ UNCHANGED <<requests, version, next_req_id, handles, limits, task, rx,
                   driver, eof, eofReads, rdEnded, pushed>>
    /\ UNCHANGED <<fil, others>>

\* The peer closes its side: the read side of the stream is at its end.
StreamEof ==
    /\ ~eof
    /\ eof' = TRUE
    /\ last' = NoReturn
    /\ UNCHANGED <<requests, version, next_req_id, handles, limits, txq,
                   txClosed, task, rx, driver, eofReads, rdEnded, wire, pushed>>
    /\ UNCHANGED <<fil, others>>

\* One turn of the reader on the closed stream: read_u32 fails with
\* io::ErrorKind::UnexpectedEof, the ? turns it into the crate's Error, and
\* the loop breaks on Error::UnexpectedEof and otherwise logs and goes on.
\* Leaving the one-task loop drops the receiver of the queue too.
ReadAtEof ==
    /\ eof
    /\ ReaderRunning
    /\ eofReads < MaxEofReads
    /\ eofReads' = eofReads + 1
    /\ LET err == IoErrorInto("UnexpectedEof")
       IN  /\ rdEnded' = (err = "UnexpectedEof")
           /\ txClosed' = (txClosed \/ (rdEnded' /\ driver = "select"))
           /\ txq' = IF txClosed' THEN <<>> ELSE txq
           /\ last' = Returned("process_handler", None, Out(err, "-", NoPkt))
    /\ UNCHANGED <<requests, version, next_req_id, handles, limits, task, rx,
                   driver, eof, wire, pushed>>
    /\ UNCHANGED <<fil, others>>

DriverNext ==
    \/ \E f \in PushFrames : TxSend(f)
    \/ \E ok \in BOOLEAN : WriterStep(ok)
    \/ StreamEof
    \/ ReadAtEof
    \/ \E packet \in InPackets \cup BadFrames : DriverRead(packet)

DriverSpec == DriverInit /\ [][DriverNext]_vars

\* Packets the reader loop can hand to the waiter of a request with id 0.
TypedReplies ==
    {Pkt(k, Some(0), "-") :
        k \in {"Handle", "Data", "Name", "Attrs", "ExtendedReply"}}
    \cup {Pkt("Status", Some(0), c) : c \in StatusCodes}

\* --------------------------------------------------------- File, in isolation
\* A File over a session that has been set up, the session reduced to what
\* the File sees of it: the requests it is asked to make and the result each
\* comes back with.

\* MaxWriteLen, were the negotiated limit not looked at.
MaxWriteLen_Default(lim) == MAX_WRITE_LENGTH

\* max_write_len of poll_write: the negotiated limit or the default.
MaxWriteLen(lim) ==
    IF lim.write_len # None THEN lim.write_len[1] ELSE MAX_WRITE_LENGTH

\* ChunkLen, were the buffer sent whole.
ChunkLen_Whole(n, max) == n

\* let len = if data.len() > max_write_len { max_write_len } else { data.len() }
ChunkLen(n, max) == IF n > max THEN max ELSE n

\* The future poll_write puts into f_write: what it captured (the buffer,
\* the offset, the chunk length), how far it has got and, once the request
\* has come back, with what.  First, were the offset captured always 0.
WriteFuture_AtStart(buflen, offset, len) ==
    [data_len |-> buflen, offset |-> 0, len |-> len, st |-> "new",
     out |-> NoOut]

\* The future poll_write puts into f_write.
WriteFuture(buflen, offset, len) ==
    [data_len |-> buflen, offset |-> offset, len |-> len, st |-> "new",
     out |-> NoOut]

\* WriteSlot, were a future made at every poll.
WriteSlot_Fresh(f, new) == new

\* match self.state.f_write.as_mut() { Some(f) => f, None => get_or_insert(..) }
WriteSlot(f, new) == IF f.f_write = None THEN new ELSE f.f_write[1]

\* SftpSession::new has returned: a version is recorded and the limits the
\* server reported, if any, are set in the session and given to the File;
\* the session may have been closed since.
FileInit ==
    /\ requests = <<>>
    /\ version = Some(VERSION)
    /\ next_req_id = 0
    /\ handles = 0
    /\ limits \in {LimitsFrom(e) : e \in LimitsExtensions}
    /\ txq = <<>>
    /\ txClosed \in BOOLEAN
    /\ task = [t \in Tasks |-> IdleTask]
    /\ rx = [t \in Tasks |-> RxEmpty]
    /\ last = NoReturn
    /\ driver = "split"
    /\ eof = FALSE
    /\ eofReads = 0
    /\ rdEnded = FALSE
    /\ wire = <<>>
    /\ pushed = <<>>
    /\ file = NewFile
    /\ fsent = <<>>
    /\ fret = NoPoll
    /\ fdrop = "no"
    /\ rdir = NewReadDir
    /\ sess = NewSftp
    /\ srv = NewServer
    /\ reader = NewReader
    /\ codec = NewCodec
    /\ late = {}

\* File::poll_write with a buffer of buflen bytes.  With the slot empty a
\* future is made and put in it; the future in the slot is polled: on its
\* first poll it runs RawSftpSession::write up to the await (the limit
\* check, then the push, which fails at once on a closed queue); once the
\* request has come back it is ready.  A ready future empties the slot and,
\* if it is Ok(len), moves pos.
PollWrite(buflen) ==
    LET fut0 == WriteSlot(file, WriteFuture(buflen, file.pos,
                                  ChunkLen(buflen, MaxWriteLen(limits))))
        first == fut0.st = "new"
        limited == first /\ WriteLimited(limits, fut0.len)
        closed == first /\ ~limited /\ txClosed
        sends == first /\ ~limited /\ ~closed
        fut1 == IF limited
                THEN [fut0 EXCEPT !.st = "done",
                                  !.out = Out("Limited", "-", NoPkt)]
                ELSE IF closed
                THEN [fut0 EXCEPT !.st = "done",
                                  !.out = Out("UnexpectedBehavior", "SendError",
                                              NoPkt)]
                ELSE IF sends THEN [fut0 EXCEPT !.st = "sent"]
                ELSE fut0
        ready == fut1.st = "done"
        ok == ready /\ fut1.out.tag = "Ok"
    IN  /\ sends => Len(fsent) < MaxFileReqs
        /\ fsent' = IF sends
                    THEN Append(fsent, [kind |-> "Write",
                                        offset |-> fut0.offset,
                                        len |-> fut0.len])
                    ELSE fsent
        /\ file' = [file EXCEPT
                        !.pos = IF ok THEN file.pos + fut1.len ELSE file.pos,
                        !.f_write = IF ready THEN None ELSE Some(fut1)]
        /\ fret' = IF ~ready THEN Polled("poll_write", buflen, "Pending", 0)
                   ELSE IF ok THEN Polled("poll_write", buflen, "Ok", fut1.len)
                   ELSE Polled("poll_write", buflen, "Err", 0)
        /\ UNCHANGED <<requests, version, next_req_id, handles, limits, txq,
                       txClosed, task, rx, last, drv, others, fdrop>>

\* The Write the File has in flight is answered: RawSftpSession::write
\* returns what into_status! makes of the reply.
WriteReplied(pkt) ==
    /\ file.f_write # None
    /\ file.f_write[1].st = "sent"
    /\ file' = [file EXCEPT !.f_write =
           Some([file.f_write[1] EXCEPT !.st = "done",
                                        !.out = TypedResult("write", pkt)])]
    /\ fret' = NoPoll
    /\ UNCHANGED <<requests, version, next_req_id, handles, limits, txq,
                   txClosed, task, rx, last, drv, others, fsent, fdrop>>

\* The Write the File has in flight is not answered in time:
\* RawSftpSession::write returns Timeout.
WriteTimedOut ==
    /\ file.f_write # None
    /\ file.f_write[1].st = "sent"
    /\ file' = [file EXCEPT !.f_write =
           Some([file.f_write[1] EXCEPT !.st = "done",
                                        !.out = Out("Timeout", "-", NoPkt)])]
    /\ fret' = NoPoll
    /\ UNCHANGED <<requests, version, next_req_id, handles, limits, txq,
                   txClosed, task, rx, last, drv, others, fsent, fdrop>>

FileNext ==
    \/ \E buflen \in BufLens : PollWrite(buflen)
    \/ \E pkt \in TypedReplies : WriteReplied(pkt)
    \/ WriteTimedOut

FileSpec == FileInit /\ [][FileNext]_vars

\* ---------------------------------------------------- File reads, in isolation

\* Replies a server may give to the File's Read: Data of some length, a
\* Status, or a packet of another kind (a Handle stands for them).
DataPkt(n) == [kind |-> "Data", id |-> Some(0), code |-> "-", len |-> n]

ReadReplies ==
    {DataPkt(n) : n \in DataLens}
    \cup {Pkt("Status", Some(0), c) : c \in {"Ok", "Eof", "Failure"}}
    \cup {Pkt("Handle", Some(0), "-")}

\* max_read_len of poll_read: the negotiated limit or the default.
MaxReadLen(lim) ==
    IF lim.read_len # None THEN lim.read_len[1] ELSE MAX_READ_LENGTH

\* let len = if buf.remaining() > max_read_len { max_read_len }
\*           else { buf.remaining() }
ReadLen(n, max) == IF n > max THEN max ELSE n

\* ReadOutcome, were a Status Eof an error like any other Status.
ReadOutcome_EofErr(out) ==
    IF out.tag = "Ok" THEN [res |-> "Some", n |-> out.pkt.len]
    ELSE [res |-> "Err", n |-> 0]

\* The match in the future of poll_read: Ok(data) is Ok(Some(data.data)), an
\* Err(Status) with code Eof is Ok(None), any other Err is an io::Error.
ReadOutcome(out) ==
    IF out.tag = "Ok" THEN [res |-> "Some", n |-> out.pkt.len]
    ELSE IF out.tag = "Status" /\ out.pkt.code = "Eof"
    THEN [res |-> "None", n |-> 0]
    ELSE [res |-> "Err", n |-> 0]

\* The future poll_read puts into f_read.
ReadFuture(offset, len) ==
    [offset |-> offset, len |-> len, st |-> "new", out |-> NoOut]

\* File::poll_read with a ReadBuf that has rem bytes of space left.  With the
\* slot empty a future is made and put in it; the future in the slot is
\* polled: on its first poll it runs RawSftpSession::read up to the await
\* (the limit check, then the push, which fails at once on a closed queue).
\* A ready future empties the slot.  Ok(Some(data)) moves pos by data.len()
\* and then calls put_slice, which panics when the data is longer than the
\* space left.
PollRead(rem) ==
    LET fut0 == IF file.f_read = None
                THEN ReadFuture(file.pos, ReadLen(rem, MaxReadLen(limits)))
                ELSE file.f_read[1]
        first == fut0.st = "new"
        limited == first /\ ReadLimited(limits, fut0.len)
        closed == first /\ ~limited /\ txClosed
        sends == first /\ ~limited /\ ~closed
        fut1 == IF limited
                THEN [fut0 EXCEPT !.st = "done",
                                  !.out = Out("Limited", "-", NoPkt)]
                ELSE IF closed
                THEN [fut0 EXCEPT !.st = "done",
                                  !.out = Out("UnexpectedBehavior", "SendError",
                                              NoPkt)]
                ELSE IF sends THEN [fut0 EXCEPT !.st = "sent"]
                ELSE fut0
        ready == fut1.st = "done"
        got == IF ready THEN ReadOutcome(fut1.out) ELSE [res |-> "-", n |-> 0]
    IN  /\ sends => Len(fsent) < MaxFileReqs
        /\ fsent' = IF sends
                    THEN Append(fsent, [kind |-> "Read",
                                        offset |-> fut0.offset,
                                        len |-> fut0.len])
                    ELSE fsent
        /\ file' = [file EXCEPT
                        !.pos = IF got.res = "Some" THEN file.pos + got.n
                                ELSE file.pos,
                        !.f_read = IF ready THEN None ELSE Some(fut1)]
        /\ fret' = IF ~ready THEN Polled("poll_read", rem, "Pending", 0)
                   ELSE IF got.res = "Err" THEN Polled("poll_read", rem, "Err", 0)
                   ELSE IF got.res = "None" THEN Polled("poll_read", rem, "Ok", 0)
                   ELSE IF got.n > rem
                   THEN Polled("poll_read", rem, "Panic", 0)
                   ELSE Polled("poll_read", rem, "Ok", got.n)
        /\ UNCHANGED <<requests, version, next_req_id, handles, limits, txq,
                       txClosed, task, rx, last, drv, others, fdrop>>

\* The Read the File has in flight is answered: RawSftpSession::read returns
\* what into_with_status! makes of the reply.
ReadReplied(pkt) ==
    /\ file.f_read # None
    /\ file.f_read[1].st = "sent"
    /\ file' = [file EXCEPT !.f_read =
           Some([file.f_read[1] EXCEPT !.st = "done",
                                       !.out = TypedResult("read", pkt)])]
    /\ fret' = NoPoll
    /\ UNCHANGED <<requests, version, next_req_id, handles, limits, txq,
                   txClosed, task, rx, last, drv, others, fsent, fdrop>>

\* The Read the File has in flight is not answered in time.
ReadTimedOut ==
    /\ file.f_read # None
    /\ file.f_read[1].st = "sent"
    /\ file' = [file EXCEPT !.f_read =
           Some([file.f_read[1] EXCEPT !.st = "done",
                                       !.out = Out("Timeout", "-", NoPkt)])]
    /\ fret' = NoPoll
    /\ UNCHANGED <<requests, version, next_req_id, handles, limits, txq,
                   txClosed, task, rx, last, drv, others, fsent, fdrop>>

FileReadNext ==
    \/ \E rem \in RemLens : PollRead(rem)
    \/ \E pkt \in ReadReplies : ReadReplied(pkt)
    \/ ReadTimedOut

FileReadSpec == FileInit /\ [][FileReadNext]_vars

\* A File that is written to and read from.  The buffers are below the
\* limit a server reports here, above it, and above the default; a Write is
\* answered with a Status, a Read with Data or a Status, or neither in time.
IoLens == {1, 3, 261121}

FileIoNext ==
    \/ \E buflen \in IoLens : PollWrite(buflen)
    \/ \E c \in StatusCodes : WriteReplied(Pkt("Status", Some(0), c))
    \/ WriteTimedOut
    \/ \E rem \in IoLens : PollRead(rem)
    \/ \E pkt \in {DataPkt(1), Pkt("Status", Some(0), "Eof")} : ReadReplied(pkt)
    \/ ReadTimedOut

FileIoSpec == FileInit /\ [][FileIoNext]_vars

\* ---------------------------------------------------- File seeks, in isolation
\* The arithmetic of a seek is done in i64 on values that are u64.  The model
\* keeps the two's complement arithmetic and shortens the word: IntBits bits
\* stand for the 64, so that 2^(IntBits-1) stands for 2^63.
IntBits == 4
U64_MAX == 2^IntBits - 1
I64_MAX == 2^(IntBits - 1) - 1
I64_MIN == -(2^(IntBits - 1))

\* x as i64, x a u64
AsI64(x) == IF x > I64_MAX THEN x - 2^IntBits ELSE x

\* a + b in i64 where the build wraps on overflow
WrappingAdd(a, b) == ((a + b - I64_MIN) % 2^IntBits) + I64_MIN

\* a + b does not fit i64
AddOverflows(a, b) == a + b > I64_MAX \/ a + b < I64_MIN

SeekFrom(whence, n) == [whence |-> whence, n |-> n]

\* Positions handed to start_seek: Start takes a u64, Current and End an i64.
SeekFroms ==
    {SeekFrom("Start", o) : o \in {0, 2, I64_MAX + 1}}
    \cup {SeekFrom("Current", d) : d \in {-1, 1, I64_MAX}}
    \cup {SeekFrom("End", d) : d \in {-3, 0}}

\* An Attrs reply, of which the seek reads attrs.size.
AttrsPkt(size) == [kind |-> "Attrs", id |-> Some(0), code |-> "-", size |-> size]

\* Replies a server may give to the File's Fstat.
FstatReplies ==
    {AttrsPkt(z) : z \in {None, Some(2), Some(U64_MAX)}}
    \cup {Pkt("Status", Some(0), "Failure"), Pkt("Handle", Some(0), "-")}

\* The future start_seek puts into f_seek: the position asked for and pos
\* as i64 at the time; st = "finished" once it has returned Ready.
SeekFuture(position, cur_pos) ==
    [position |-> position, cur_pos |-> cur_pos, st |-> "new", out |-> NoOut]

\* What a poll of the future in f_seek gives.
Sought(res, v, fut) == [res |-> res, v |-> v, fut |-> fut]

\* The tail of the async block, from the sum on: a + b in i64 (a panic where
\* the build checks overflow, the wrapped sum where it does not), an error
\* if it is negative, else Ok(new_pos as u64).
SeekSum(f, a, b, wraps) ==
    LET done == [f EXCEPT !.st = "finished"]
        new_pos == IF AddOverflows(a, b) THEN WrappingAdd(a, b) ELSE a + b
    IN  IF AddOverflows(a, b) /\ ~wraps THEN Sought("Panic", 0, done)
        ELSE IF new_pos < 0 THEN Sought("Err", 0, done)
        ELSE Sought("Ok", new_pos, done)

\* One poll of the future in f_seek.  Start and Current compute at once; End
\* runs RawSftpSession::fstat first (the push fails at once on a closed
\* queue) and computes when the Attrs are there.  A future that has returned
\* Ready panics when polled again.
SeekPoll(f, wraps) ==
    LET done == [f EXCEPT !.st = "finished"]
    IN  IF f.st = "finished" THEN Sought("Panic", 0, f)
        ELSE IF f.position.whence = "Start"
        THEN SeekSum(f, AsI64(f.position.n), 0, TRUE)
        ELSE IF f.position.whence = "Current"
        THEN SeekSum(f, f.cur_pos, f.position.n, wraps)
        ELSE IF f.st = "new"
        THEN IF txClosed THEN Sought("Err", 0, done)
             ELSE Sought("Pending", 0, [f EXCEPT !.st = "sent"])
        ELSE IF f.st = "sent" THEN Sought("Pending", 0, f)
        ELSE IF f.out.tag # "Ok" THEN Sought("Err", 0, done)
        ELSE IF f.out.pkt.size = None THEN Sought("Err", 0, done)
        ELSE SeekSum(f, AsI64(f.out.pkt.size[1]), f.position.n, wraps)

\* AsyncSeek::start_seek
StartSeek(position) ==
    /\ IF file.f_seek # None
       THEN /\ fret' = Polled("start_seek", 0, "ErrPending", 0)
            /\ file' = file
       ELSE /\ fret' = Polled("start_seek", 0, "Ok", 0)
            /\ file' = [file EXCEPT !.f_seek =
                   Some(SeekFuture(position, AsI64(file.pos)))]
    /\ UNCHANGED <<requests, version, next_req_id, handles, limits, txq,
                   txClosed, task, rx, last, drv, others, fsent, fdrop>>

\* AsyncSeek::poll_complete.  With the slot empty it returns pos.  Else it
\* polls the future: Pending returns Pending; Ok(p) sets pos, empties the
\* slot and returns p; Err(e) returns through `?`, before the slot is
\* emptied.  wraps: the build does not check arithmetic overflow.
PollComplete(wraps) ==
    LET s == SeekPoll(file.f_seek[1], wraps)
        sends == file.f_seek[1].st = "new" /\ s.fut.st = "sent"
    IN  IF file.f_seek = None
        THEN /\ fret' = Polled("poll_complete", 0, "Ok", file.pos)
             /\ UNCHANGED <<requests, version, next_req_id, handles, limits,
                            txq, txClosed, task, rx, last, drv, others, file, fsent,
                            fdrop>>
        ELSE /\ sends => Len(fsent) < MaxFileReqs
             /\ fsent' = IF sends THEN Append(fsent, [kind |-> "Fstat"])
                         ELSE fsent
             /\ file' = [file EXCEPT
                             !.pos = IF s.res = "Ok" THEN s.v ELSE file.pos,
                             !.f_seek = IF s.res = "Ok" THEN None
                                        ELSE Some(s.fut)]
             /\ fret' = Polled("poll_complete", 0, s.res, s.v)
             /\ UNCHANGED <<requests, version, next_req_id, handles, limits,
                            txq, txClosed, task, rx, last, drv, others, fdrop>>

\* The Fstat of the seek in flight is answered: RawSftpSession::fstat
\* returns what into_with_status! makes of the reply.
FstatReplied(pkt) ==
    /\ file.f_seek # None
    /\ file.f_seek[1].st = "sent"
    /\ file' = [file EXCEPT !.f_seek =
           Some([file.f_seek[1] EXCEPT !.st = "done",
                                       !.out = TypedResult("fstat", pkt)])]
    /\ fret' = NoPoll
    /\ UNCHANGED <<requests, version, next_req_id, handles, limits, txq,
                   txClosed, task, rx, last, drv, others, fsent, fdrop>>

\* The Fstat of the seek in flight is not answered in time.
FstatTimedOut ==
    /\ file.f_seek # None
    /\ file.f_seek[1].st = "sent"
    /\ file' = [file EXCEPT !.f_seek =
           Some([file.f_seek[1] EXCEPT !.st = "done",
                                       !.out = Out("Timeout", "-", NoPkt)])]
    /\ fret' = NoPoll
    /\ UNCHANGED <<requests, version, next_req_id, handles, limits, txq,
                   txClosed, task, rx, last, drv, others, fsent, fdrop>>

FileSeekNext ==
    \/ \E position \in SeekFroms : StartSeek(position)
    \/ \E wraps \in BOOLEAN : PollComplete(wraps)
    \/ \E pkt \in FstatReplies : FstatReplied(pkt)
    \/ FstatTimedOut

FileSeekSpec == FileInit /\ [][FileSeekNext]_vars

\* ------------------------------------- File flush, shutdown and drop, alone

\* The Close requests among the requests a File has made.
CloseCount(sent) == Cardinality({i \in DOMAIN sent : sent[i].kind = "Close"})

\* The File of a session whose server did or did not advertise
\* fsync@openssh.com = "1".
FileCloseInit ==
    /\ requests = <<>>
    /\ version = Some(VERSION)
    /\ next_req_id = 0
    /\ handles = 0
    /\ limits = DefaultLimits
    /\ txq = <<>>
    /\ txClosed \in BOOLEAN
    /\ task = [t \in Tasks |-> IdleTask]
    /\ rx = [t \in Tasks |-> RxEmpty]
    /\ last = NoReturn
    /\ driver = "split"
    /\ eof = FALSE
    /\ eofReads = 0
    /\ rdEnded = FALSE
    /\ wire = <<>>
    /\ pushed = <<>>
    /\ \E b \in BOOLEAN : file = [NewFile EXCEPT !.fsync = b]
    /\ fsent = <<>>
    /\ fret = NoPoll
    /\ fdrop = "no"
    /\ rdir = NewReadDir
    /\ sess = NewSftp
    /\ srv = NewServer
    /\ reader = NewReader
    /\ codec = NewCodec
    /\ late = {}

\* The futures poll_flush and poll_shutdown put into their slots.
StatusFuture == [st |-> "new", reply |-> NoPkt, out |-> NoOut]

\* What send() has for the request of such a future: a reply packet, or
\* none in time (NoPkt).
StatusAnswers == TypedReplies \cup {NoPkt}

\* What the request method returns then: into_status! of the reply, or the
\* Timeout of send().
StatusOutcome(reply) ==
    IF reply = NoPkt THEN Out("Timeout", "-", NoPkt) ELSE IntoStatus(reply)

\* One poll of such a future: on its first poll it runs the request method
\* up to the await (the push fails at once on a closed queue).
StatusPoll(fut) ==
    IF fut.st # "new" THEN fut
    ELSE IF txClosed
    THEN [fut EXCEPT !.st = "done",
                     !.out = Out("UnexpectedBehavior", "SendError", NoPkt)]
    ELSE [fut EXCEPT !.st = "sent"]

\* What a poll that found the future in this state returns.
StatusPolled(op, fut) ==
    IF fut.st # "done" THEN Polled(op, 0, "Pending", 0)
    ELSE IF fut.out.tag = "Ok" THEN Polled(op, 0, "Ok", 0)
    ELSE Polled(op, 0, "Err", 0)

\* FlushEnabled, were the extension taken to be there always.
FlushEnabled_Always(f) == TRUE

\* if !self.extensions.fsync { return Poll::Ready(Ok(())) }
FlushEnabled(f) == f.fsync

\* AsyncWrite::poll_flush
PollFlush ==
    /\ fdrop = "no"
    /\ IF ~FlushEnabled(file)
       THEN /\ fret' = Polled("poll_flush", 0, "Ok", 0)
            /\ UNCHANGED <<file, fsent>>
       ELSE LET fut0 == IF file.f_flush = None THEN StatusFuture
                        ELSE file.f_flush[1]
                fut1 == StatusPoll(fut0)
                sends == fut0.st = "new" /\ fut1.st = "sent"
            IN  /\ sends => Len(fsent) < MaxFileReqs
                /\ fsent' = IF sends
                            THEN Append(fsent, [kind |-> "Extended",
                                                request |-> "fsync@openssh.com"])
                            ELSE fsent
                /\ file' = [file EXCEPT !.f_flush =
                       IF fut1.st = "done" THEN None ELSE Some(fut1)]
                /\ fret' = StatusPolled("poll_flush", fut1)
    /\ UNCHANGED <<requests, version, next_req_id, handles, limits, txq,
                   txClosed, task, rx, last, drv, others, fdrop>>

\* AsyncWrite::poll_shutdown: a Ready of either kind empties the slot and
\* sets closed.
PollShutdown ==
    /\ fdrop = "no"
    /\ LET fut0 == IF file.f_shutdown = None THEN StatusFuture
                   ELSE file.f_shutdown[1]
           fut1 == StatusPoll(fut0)
           sends == fut0.st = "new" /\ fut1.st = "sent"
       IN  /\ sends => Len(fsent) < MaxFileReqs
           /\ fsent' = IF sends THEN Append(fsent, [kind |-> "Close"])
                       ELSE fsent
           /\ file' = [file EXCEPT
                  !.f_shutdown = IF fut1.st = "done" THEN None ELSE Some(fut1),
                  !.closed = IF fut1.st = "done" THEN TRUE ELSE file.closed]
           /\ fret' = StatusPolled("poll_shutdown", fut1)
    /\ UNCHANGED <<requests, version, next_req_id, handles, limits, txq,
                   txClosed, task, rx, last, drv, others, fdrop>>

\* The fsync of the flush in flight is answered (into_status!), or is not
\* answered in time.
FlushReturned(reply) ==
    /\ fdrop = "no"
    /\ file.f_flush # None
    /\ file.f_flush[1].st = "sent"
    /\ file' = [file EXCEPT !.f_flush =
           Some([file.f_flush[1] EXCEPT !.st = "done", !.reply = reply,
                                        !.out = StatusOutcome(reply)])]
    /\ fret' = NoPoll
    /\ UNCHANGED <<requests, version, next_req_id, handles, limits, txq,
                   txClosed, task, rx, last, drv, others, fsent, fdrop>>

\* The Close of the shutdown in flight is answered (into_status!), or is not
\* answered in time.
ShutdownReturned(reply) ==
    /\ fdrop = "no"
    /\ file.f_shutdown # None
    /\ file.f_shutdown[1].st = "sent"
    /\ file' = [file EXCEPT !.f_shutdown =
           Some([file.f_shutdown[1] EXCEPT !.st = "done", !.reply = reply,
                                           !.out = StatusOutcome(reply)])]
    /\ fret' = NoPoll
    /\ UNCHANGED <<requests, version, next_req_id, handles, limits, txq,
                   txClosed, task, rx, last, drv, others, fsent, fdrop>>

\* Drop for File.  executor: Handle::try_current() is Ok.
Drop(executor) ==
    /\ fdrop = "no"
    /\ fdrop' = IF ~file.closed /\ executor THEN "spawned" ELSE "done"
    /\ fret' = NoPoll
    /\ UNCHANGED <<requests, version, next_req_id, handles, limits, txq,
                   txClosed, task, rx, last, drv, others, file, fsent>>

\* The task Drop spawned runs: session.close(file_handle), its result
\* thrown away.  The push fails on a closed queue.
SpawnedClose ==
    /\ fdrop = "spawned"
    /\ fdrop' = "done"
    /\ fsent' = IF txClosed THEN fsent ELSE Append(fsent, [kind |-> "Close"])
    /\ fret' = NoPoll
    /\ UNCHANGED <<requests, version, next_req_id, handles, limits, txq,
                   txClosed, task, rx, last, drv, others, file>>

FileCloseNext ==
    \/ PollFlush
    \/ PollShutdown
    \/ \E reply \in StatusAnswers : FlushReturned(reply)
    \/ \E reply \in StatusAnswers : ShutdownReturned(reply)
    \/ \E executor \in BOOLEAN : Drop(executor)
    \/ SpawnedClose

FileCloseSpec == FileCloseInit /\ [][FileCloseNext]_vars

\* ------------------------------------------------------ read_dir, in isolation

\* File names of the entries of a Name reply, and the lists of them a Name
\* reply may carry.
NameBatches == {<<>>, <<"a">>, <<".", "..">>, <<"..", "a">>, <<"a", "b">>}

NamePkt(names) ==
    [kind |-> "Name", id |-> Some(0), code |-> "-", files |-> names]

\* What send() has for each of the three requests of read_dir: a reply
\* packet, or none in time (NoPkt).
OpendirAnswers ==
    {Pkt("Handle", Some(0), "-"), Pkt("Status", Some(0), "Failure"),
     Pkt("Data", Some(0), "-"), NoPkt}

ReaddirAnswers ==
    {NamePkt(b) : b \in NameBatches}
    \cup {Pkt("Status", Some(0), c) : c \in {"Ok", "Eof", "Failure"}}
    \cup {Pkt("Handle", Some(0), "-"), NoPkt}

CloseAnswers ==
    {Pkt("Status", Some(0), c) : c \in {"Ok", "Failure"}}
    \cup {Pkt("Handle", Some(0), "-"), NoPkt}

\* What the request method returns for what send() had.
Answered(method, reply) ==
    IF reply = NoPkt THEN Out("Timeout", "-", NoPkt)
    ELSE TypedResult(method, reply)

\* name.files.into_iter().map(|f| (f.filename, f.attrs)): the entries of a
\* Name reply that arrives when n entries have arrived before it; tag stands
\* for the attrs, and tells one entry from another of the same name.
DirEntries(names, n) ==
    [i \in 1..Len(names) |-> [name |-> names[i], tag |-> n + i]]

\* Hidden, were no entry skipped.
Hidden_None(name) == FALSE

\* entry.0 == "." || entry.0 == ".."
Hidden(name) == name \in {".", ".."}

\* Iterator::next of ReadDir pops the hidden entries at the front.
RECURSIVE SkipHidden(_)
SkipHidden(q) ==
    IF q = <<>> THEN q
    ELSE IF Hidden(Head(q).name) THEN SkipHidden(Tail(q))
    ELSE q

\* SftpSession::read_dir up to its first await: opendir checks the handle
\* limit and sends OpenDir.
ReadDirCall ==
    /\ rdir.pc = "idle"
    /\ rdir' = IF HandleLimitReached(limits, handles)
               THEN [rdir EXCEPT !.pc = "failed"]
               ELSE [rdir EXCEPT !.pc = "opendir",
                                 !.sent = <<[kind |-> "OpenDir"]>>]
    /\ UNCHANGED <<requests, version, next_req_id, handles, limits, txq,
                   txClosed, task, rx, last, drv, fil, sess, srv,
                   reader, codec, late>>

\* opendir returns: with a Handle the loop starts and sends the first
\* ReadDir, with anything else read_dir returns the error.
OpendirAnswered(reply) ==
    /\ rdir.pc = "opendir"
    /\ handles' = IF reply = NoPkt THEN handles
                  ELSE HandlesAfterOpen(handles, reply)
    /\ rdir' = IF Answered("opendir", reply).tag = "Ok"
               THEN [rdir EXCEPT !.pc = "readdir",
                                 !.sent = Append(@, [kind |-> "ReadDir"])]
               ELSE [rdir EXCEPT !.pc = "failed"]
    /\ UNCHANGED <<requests, version, next_req_id, limits, txq, txClosed,
                   task, rx, last, drv, fil, sess, srv,
                   reader, codec, late>>

\* readdir returns: the entries of a Name are put in front of files and the
\* next ReadDir is sent; Err(Status) with code Eof breaks the loop, and
\* Close is sent; any other error is returned at once.
ReaddirAnswered(reply) ==
    /\ rdir.pc = "readdir"
    /\ LET out == Answered("readdir", reply)
           new == DirEntries(reply.files, Len(rdir.got))
       IN  IF out.tag = "Ok"
           THEN /\ Len(rdir.sent) - 1 <= MaxNames
                /\ rdir' = [rdir EXCEPT !.files = new \o @,
                                        !.got = @ \o new,
                                        !.sent = Append(@, [kind |-> "ReadDir"])]
           ELSE IF out.tag = "Status" /\ out.pkt.code = "Eof"
           THEN rdir' = [rdir EXCEPT !.pc = "close",
                                     !.sent = Append(@, [kind |-> "Close"])]
           ELSE rdir' = [rdir EXCEPT !.pc = "failed"]
    /\ UNCHANGED <<requests, version, next_req_id, handles, limits, txq,
                   txClosed, task, rx, last, drv, fil, sess, srv,
                   reader, codec, late>>

\* close returns: with Status Ok read_dir returns the ReadDir over files,
\* with anything else the error.
CloseAnswered(reply) ==
    /\ rdir.pc = "close"
    /\ handles' = IF reply = NoPkt THEN handles
                  ELSE HandlesAfterClose(handles, reply)
    /\ rdir' = IF Answered("close", reply).tag = "Ok"
               THEN [rdir EXCEPT !.pc = "done", !.entries = rdir.files]
               ELSE [rdir EXCEPT !.pc = "failed"]
    /\ UNCHANGED <<requests, version, next_req_id, limits, txq, txClosed,
                   task, rx, last, drv, fil, sess, srv,
                   reader, codec, late>>

\* Iterator::next on the ReadDir returned, while it has entries: the hidden
\* entries at the front are dropped and the first other entry is yielded.
IterNext ==
    /\ rdir.pc = "done"
    /\ rdir.entries # <<>>
    /\ LET q == SkipHidden(rdir.entries)
       IN  rdir' = IF q = <<>> THEN [rdir EXCEPT !.entries = <<>>]
                   ELSE [rdir EXCEPT !.entries = Tail(q),
                                     !.yielded = Append(@, Head(q))]
    /\ UNCHANGED <<requests, version, next_req_id, handles, limits, txq,
                   txClosed, task, rx, last, drv, fil, sess, srv,
                   reader, codec, late>>

DirNext ==
    \/ ReadDirCall
    \/ \E reply \in OpendirAnswers : OpendirAnswered(reply)
    \/ \E reply \in ReaddirAnswers : ReaddirAnswered(reply)
    \/ \E reply \in CloseAnswers : CloseAnswered(reply)
    \/ IterNext

DirSpec == Init /\ [][DirNext]_vars

\* ---------------------------------------------- SftpSession::new, in isolation

\* The extensions of a Version reply, as far as new() looks at them: the
\* value under each of the three names, "-" when the name is absent.
Advertisements ==
    [limits : {"-", "1", "2"}, fsync : {"-", "1"}, statvfs : {"-", "2"}]

VersionPkt(exts) ==
    [kind |-> "Version", id |-> None, code |-> "-", extensions |-> exts]

\* What send() has for the Init: a Version, another packet, or none in time.
InitAnswers ==
    {VersionPkt(e) : e \in Advertisements}
    \cup {Pkt("Status", None, "Failure"), NoPkt}

\* The LimitsExtension a server may report.
ReportedLimits ==
    [max_read_len : {0, 2, 3}, max_write_len : {0, 2, 3},
     max_open_handles : {0, 1, 2}]

LimitsReplyPkt(e) ==
    [kind |-> "ExtendedReply", id |-> Some(0), code |-> "-", data |-> e]

\* What send() has for the limits request; an ExtendedReply whose data does
\* not parse carries None.
LimitsAnswers ==
    {LimitsReplyPkt(Some(e)) : e \in ReportedLimits}
    \cup {LimitsReplyPkt(None), Pkt("Handle", Some(0), "-"), NoPkt}
    \cup {Pkt("Status", Some(0), c) : c \in {"Ok", "Failure"}}

\* Advertises, were the value not looked at.
Advertises_Present(exts, name, value) == exts[name] # "-"

\* version.extensions.get(name).is_some_and(|e| e == value)
Advertises(exts, name, value) == exts[name] = value

\* RawSftpSession::limits: what it makes of what send() had.
LimitsResult(reply) ==
    IF reply = NoPkt THEN Out("Timeout", "-", NoPkt)
    ELSE IF reply.kind = "ExtendedReply"
    THEN IF reply.data = None THEN Out("UnexpectedBehavior", "BadMessage", NoPkt)
         ELSE Out("Ok", "-", reply)
    ELSE IF reply.kind = "Status" /\ reply.code # "Ok"
    THEN Out("Status", "-", reply)
    ELSE Out("UnexpectedPacket", "-", NoPkt)

\* SftpSession::new up to its first await: init() sends Init.
NewCall ==
    /\ sess.pc = "idle"
    /\ sess' = [sess EXCEPT !.pc = "init", !.sent = <<[kind |-> "Init"]>>]
    /\ UNCHANGED <<requests, version, next_req_id, handles, limits, txq,
                   txClosed, task, rx, last, drv, fil, rdir, srv,
                   reader, codec, late>>

\* init() returns.  With a Version (which the reader loop has recorded) the
\* Extensions are built from its extensions, and with limits@openssh.com =
\* "1" the limits request is sent; without, new() returns.  With anything
\* else new() returns the error.
InitAnswered(reply) ==
    /\ sess.pc = "init"
    /\ IF reply # NoPkt /\ reply.kind = "Version"
       THEN LET exts == reply.extensions
                asks == Advertises(exts, "limits", "1")
            IN  /\ version' = Some(VERSION)
                /\ sess' = [sess EXCEPT
                       !.advertised = Some(exts),
                       !.fsync = Advertises(exts, "fsync", "1"),
                       !.statvfs = Advertises(exts, "statvfs", "2"),
                       !.pc = IF asks THEN "limits" ELSE "done",
                       !.sent = IF asks
                                THEN Append(@, [kind |-> "Extended",
                                                request |-> "limits@openssh.com"])
                                ELSE @]
       ELSE /\ sess' = [sess EXCEPT !.pc = "failed"]
            /\ UNCHANGED version
    /\ UNCHANGED <<requests, next_req_id, handles, limits, txq, txClosed,
                   task, rx, last, drv, fil, rdir, srv,
                   reader, codec, late>>

\* limits() returns.  With a LimitsExtension, one Limits is made of it, set
\* in the raw session and put in the Extensions, and new() returns; with an
\* error new() returns the error.
LimitsAnswered(reply) ==
    /\ sess.pc = "limits"
    /\ IF LimitsResult(reply).tag = "Ok"
       THEN /\ limits' = LimitsFrom(reply.data[1])
            /\ sess' = [sess EXCEPT
                   !.pc = "done",
                   !.reported = reply.data,
                   !.ext_limits = Some(LimitsFrom(reply.data[1]))]
       ELSE /\ sess' = [sess EXCEPT !.pc = "failed"]
            /\ UNCHANGED limits
    /\ UNCHANGED <<requests, version, next_req_id, handles, txq, txClosed,
                   task, rx, last, drv, fil, rdir, srv,
                   reader, codec, late>>

NewNext ==
    \/ NewCall
    \/ \E reply \in InitAnswers : InitAnswered(reply)
    \/ \E reply \in LimitsAnswers : LimitsAnswered(reply)

NewSpec == Init /\ [][NewNext]_vars

\* ------------------------------------------------------ the server's loop

\* Ids of the requests a client sends here, and of the replies a handler
\* returns.
ServerIds == {1, 2}

\* The packets process_request hands to a method of the Handler.
RequestKinds ==
    {"Init", "Open", "Close", "Read", "Write", "Lstat", "Fstat", "SetStat",
     "FSetStat", "OpenDir", "ReadDir", "Remove", "MkDir", "RmDir", "RealPath",
     "Stat", "Rename", "ReadLink", "Symlink", "Extended"}

\* The packets that decode and fall to the last arm of process_request.
ReplyKinds ==
    {"Version", "Status", "Handle", "Data", "Name", "Attrs", "ExtendedReply"}

\* Frames a client may put on the server's stream: requests (an Init, which
\* has no id, and three kinds with one), the packets that are no request, and
\* a frame that does not decode.
ClientFrames ==
    {Pkt("Init", None, "-"), Pkt("Undecodable", None, "-"),
     Pkt("Version", None, "-")}
    \cup {Pkt(k, Some(i), "-") : k \in {"Open", "Close", "Extended"},
                                i \in ServerIds}
    \cup {Pkt("Status", Some(i), "Ok") : i \in ServerIds}
    \cup {Pkt(k, Some(1), "-") : k \in ReplyKinds \ {"Version", "Status"}}

\* Packet::get_request_id
GetRequestId(packet) ==
    IF packet.kind \in RequestKinds \ {"Init"} THEN packet.id[1] ELSE 0

\* What a method of the Handler returns for a request: Ok with a packet of
\* its reply type, which carries the id the handler gave it, or Err with
\* something that converts into a StatusCode.
HandlerOk(packet) == [ok |-> TRUE, packet |-> packet, code |-> "-"]
HandlerErr(code) == [ok |-> FALSE, packet |-> NoPkt, code |-> code]

HandlerResults(request) ==
    {HandlerErr(c) : c \in {"Failure", "OpUnsupported"}}
    \cup (CASE request.kind = "Init" -> {HandlerOk(Pkt("Version", None, "-"))}
            [] request.kind = "Open" ->
                 {HandlerOk(Pkt("Handle", Some(i), "-")) : i \in ServerIds}
            [] request.kind = "Close" ->
                 {HandlerOk(Pkt("Status", Some(i), "Ok")) : i \in ServerIds}
            [] request.kind = "Extended" ->
                 {HandlerOk(Pkt("ExtendedReply", Some(i), "-")) : i \in ServerIds}
            [] OTHER -> {})

\* into_wrap!: Err(err) => Packet::error($id, err.into()),
\*             Ok(packet) => packet.into()
IntoWrap(id, result) ==
    IF result.ok THEN result.packet ELSE Pkt("Status", Some(id), result.code)

\* process_request with a last arm that answers Failure.
ProcessRequest_Failure(packet, result) ==
    IF packet.kind \in RequestKinds
    THEN IntoWrap(GetRequestId(packet), result)
    ELSE Pkt("Status", Some(0), "Failure")

\* process_request
ProcessRequest(packet, result) ==
    IF packet.kind \in RequestKinds
    THEN IntoWrap(GetRequestId(packet), result)
    ELSE Pkt("Status", Some(0), "BadMessage")

\* The response of process_handler to a frame.
Response(frame, result) ==
    IF frame.kind = "Undecodable" THEN Pkt("Status", Some(0), "BadMessage")
    ELSE ProcessRequest(frame, result)

ServerEvent(ev, pkt, result) == [ev |-> ev, pkt |-> pkt, result |-> result]

\* process_handler reads a frame.
ServerRead(frame) ==
    /\ srv.pc = "reading"
    /\ ~srv.eof
    /\ Cardinality({i \in DOMAIN srv.log : srv.log[i].ev = "read"}) < MaxFrames
    /\ srv' = [srv EXCEPT
           !.pc = "responding",
           !.request = frame,
           !.log = Append(@, ServerEvent("read", frame, HandlerErr("-")))]
    /\ UNCHANGED <<requests, version, next_req_id, handles, limits, txq,
                   txClosed, task, rx, last, drv, fil, rdir, sess,
                   reader, codec, late>>

\* The rest of process_handler: the response is made (for a request, of
\* what the handler returns) and written to the stream; if the write fails
\* process_handler returns the error, which the loop logs.  Either way the
\* loop goes on to read the next frame.
ServerRespond(result, wrote) ==
    /\ srv.pc = "responding"
    /\ IF srv.request.kind \in RequestKinds
       THEN result \in HandlerResults(srv.request)
       ELSE result = HandlerErr("-")
    /\ srv' = [srv EXCEPT
           !.pc = "reading",
           !.request = NoPkt,
           !.warned = @ \/ ~wrote,
           !.log = Append(@, ServerEvent(IF wrote THEN "write" ELSE "writefail",
                                         Response(srv.request, result),
                                         result))]
    /\ UNCHANGED <<requests, version, next_req_id, handles, limits, txq,
                   txClosed, task, rx, last, drv, fil, rdir, sess,
                   reader, codec, late>>

\* read_packet fails on the stream, at its end (UnexpectedEof) or otherwise:
\* the ? of process_handler turns the io::Error into the crate's Error, and
\* the loop breaks on Error::UnexpectedEof and otherwise logs it and goes on.
\* Once the stream is at its end every later read finds the same.
ServerReadFailed(kind) ==
    /\ srv.pc = "reading"
    /\ ~srv.eof
    /\ LET err == IoErrorInto(kind)
       IN  srv' = [srv EXCEPT
               !.pc = IF err = "UnexpectedEof" THEN "ended" ELSE "reading",
               !.eof = (kind = "UnexpectedEof"),
               !.eofAt = Len(srv.log),
               !.warned = @ \/ err # "UnexpectedEof"]
    /\ UNCHANGED <<requests, version, next_req_id, handles, limits, txq,
                   txClosed, task, rx, last, drv, fil, rdir, sess,
                   reader, codec, late>>

\* Every result a handler can return, and the one that stands for no call.
AllHandlerResults ==
    UNION {HandlerResults(f) : f \in ClientFrames} \cup {HandlerErr("-")}

ServerNext ==
    \/ \E frame \in ClientFrames : ServerRead(frame)
    \/ \E result \in AllHandlerResults, wrote \in BOOLEAN :
          ServerRespond(result, wrote)
    \/ \E kind \in {"UnexpectedEof", "ConnectionReset"} :
          ServerReadFailed(kind)

ServerSpec == Init /\ [][ServerNext]_vars

\* ------------------------------------------------------------ read_packet
\* utils::read_packet: the length header is read, a buffer of that length is
\* made, and read_exact fills it from the stream.

\* The greatest maximum frame length a caller is configured with.
MaxFrameLen == 3

\* The lengths a header can state and the bytes that can follow it.
FrameLens == 0..(MaxFrameLen + 1)

\* The rest of the model is frozen while read_packet runs.
ReaderFrame ==
    UNCHANGED <<requests, version, next_req_id, handles, limits, txq,
                txClosed, task, rx, last, drv, fil, rdir, sess, srv, codec,
                late>>

\* let length = stream.read_u32().await?; let mut buf = vec![0; length];
\* The caller's maximum plays no part in it.
ReadHeader(max_len, length, avail) ==
    /\ reader.pc = "header"
    /\ reader' = [reader EXCEPT
           !.pc = "body",
           !.max_len = max_len,
           !.length = length,
           !.allocated = length,
           !.avail = avail]
    /\ ReaderFrame

\* read_u32 finds the stream at its end: `?` returns the error.
ReadHeaderFailed(max_len) ==
    /\ reader.pc = "header"
    /\ reader' = [reader EXCEPT
           !.pc = "done", !.max_len = max_len, !.res = "Err"]
    /\ ReaderFrame

\* read_exact takes one more byte of the body from the stream.
ReadBodyByte ==
    /\ reader.pc = "body"
    /\ reader.got < reader.length
    /\ reader.got < reader.avail
    /\ reader' = [reader EXCEPT !.got = @ + 1]
    /\ ReaderFrame

\* read_exact returns: Ok once the buffer is full, and the error of the
\* stream if it ended before that.
ReadBodyDone ==
    /\ reader.pc = "body"
    /\ ~(reader.got < reader.length /\ reader.got < reader.avail)
    /\ reader' = [reader EXCEPT
           !.pc = "done",
           !.res = IF reader.got = reader.length THEN "Ok" ELSE "Err"]
    /\ ReaderFrame

ReaderNext ==
    \/ \E max_len \in 1..MaxFrameLen, length \in FrameLens, avail \in FrameLens :
          ReadHeader(max_len, length, avail)
    \/ \E max_len \in 1..MaxFrameLen : ReadHeaderFailed(max_len)
    \/ ReadBodyByte
    \/ ReadBodyDone

ReaderSpec == Init /\ [][ReaderNext]_vars

\* ------------------------------------------------------------------ codec
\* Bytes are sequences of numbers below 256.  What a read from a buffer
\* gives: the value and the bytes left, or the failure BadMessage.
Parsed(val, rest) == [ok |-> TRUE, val |-> val, rest |-> rest]
Failed == [ok |-> FALSE, val |-> <<>>, rest |-> <<>>]

\* The bytes of b after its first n.
Advance(b, n) == SubSeq(b, n + 1, Len(b))

\* BufMut::put_u32: four bytes, the most significant first.
PutU32(v) ==
    <<(v \div 16777216) % 256, (v \div 65536) % 256, (v \div 256) % 256,
      v % 256>>

\* BufMut::put_u64, for values below 2^31: eight bytes.
PutU64(v) == PutU32(0) \o PutU32(v)

\* serialize_str, put_str and the sequence of a Vec<u8>: the length as u32,
\* then the bytes.
PutStr(str) == PutU32(Len(str)) \o str

\* TryBuf::try_get_u32
TryGetU32(b) ==
    IF Len(b) < 4 THEN Failed
    ELSE Parsed(((b[1] * 256 + b[2]) * 256 + b[3]) * 256 + b[4], Advance(b, 4))

\* TryBuf::try_get_u64, for values below 2^31.
TryGetU64(b) ==
    IF Len(b) < 8 THEN Failed
    ELSE Parsed(TryGetU32(Advance(b, 4)).val, Advance(b, 8))

\* TryBuf::try_get_bytes, try_get_string and deserialize_seq of a Vec<u8>.
TryGetBytes(b) ==
    LET len == TryGetU32(b)
    IN  IF ~len.ok THEN Failed
        ELSE IF Len(len.rest) < len.val THEN Failed
        ELSE Parsed(SubSeq(len.rest, 1, len.val), Advance(len.rest, len.val))

\* The bits of FileAttr.
SIZE == 1
UIDGID == 2
PERMISSIONS == 4
ACMODTIME == 8

\* FileAttr::contains
Contains(flags, bit) == (flags \div bit) % 2 = 1

\* FileAttributes (the names user and group taken as one).
FileAttributes(size, uid, gid, permissions, atime, mtime, user) ==
    [size |-> size, uid |-> uid, gid |-> gid, permissions |-> permissions,
     atime |-> atime, mtime |-> mtime, user |-> user]

\* Option::unwrap_or(0)
UnwrapOr0(opt) == IF opt = None THEN 0 ELSE opt[1]

\* The flag word Serialize for FileAttributes makes.
AttrFlags(a) ==
    (IF a.size # None THEN SIZE ELSE 0)
    + (IF ~(a.uid = None /\ a.gid = None) THEN UIDGID ELSE 0)
    + (IF a.permissions # None THEN PERMISSIONS ELSE 0)
    + (IF ~(a.atime = None /\ a.mtime = None) THEN ACMODTIME ELSE 0)

\* Serialize for FileAttributes with a flag word that leaves PERMISSIONS out.
SerializeAttrs_NoPermBit(a) ==
    PutU32(AttrFlags([a EXCEPT !.permissions = None]))
    \o (IF a.size # None THEN PutU64(a.size[1]) ELSE <<>>)
    \o (IF ~(a.uid = None /\ a.gid = None)
        THEN PutU32(UnwrapOr0(a.uid)) \o PutU32(UnwrapOr0(a.gid)) ELSE <<>>)
    \o (IF a.permissions # None THEN PutU32(a.permissions[1]) ELSE <<>>)
    \o (IF ~(a.atime = None /\ a.mtime = None)
        THEN PutU32(UnwrapOr0(a.atime)) \o PutU32(UnwrapOr0(a.mtime))
        ELSE <<>>)

\* Serialize for FileAttributes
SerializeAttrs(a) ==
    PutU32(AttrFlags(a))
    \o (IF a.size # None THEN PutU64(a.size[1]) ELSE <<>>)
    \o (IF ~(a.uid = None /\ a.gid = None)
        THEN PutU32(UnwrapOr0(a.uid)) \o PutU32(UnwrapOr0(a.gid)) ELSE <<>>)
    \o (IF a.permissions # None THEN PutU32(a.permissions[1]) ELSE <<>>)
    \o (IF ~(a.atime = None /\ a.mtime = None)
        THEN PutU32(UnwrapOr0(a.atime)) \o PutU32(UnwrapOr0(a.mtime))
        ELSE <<>>)

\* `if attrs.contains(flag) { seq.next_element()? } else { None }`
NextIf(present, TryGet(_), b) ==
    IF present
    THEN LET r == TryGet(b) IN [ok |-> r.ok, val |-> Some(r.val), rest |-> r.rest]
    ELSE Parsed(None, b)

\* Deserialize for FileAttributes.  deserialize_any gives the visitor as
\* many elements as the buffer has bytes, so only on an empty buffer does
\* the flag word come out as None, which unwrap_or(0) makes no flags.
DeserializeAttrs(b) ==
    IF b = <<>>
    THEN Parsed(FileAttributes(None, None, None, None, None, None, None), b)
    ELSE LET f == TryGetU32(b)
             size == NextIf(Contains(f.val, SIZE), TryGetU64, f.rest)
             uid == NextIf(Contains(f.val, UIDGID), TryGetU32, size.rest)
             gid == NextIf(Contains(f.val, UIDGID), TryGetU32, uid.rest)
             permissions ==
                 NextIf(Contains(f.val, PERMISSIONS), TryGetU32, gid.rest)
             atime ==
                 NextIf(Contains(f.val, ACMODTIME), TryGetU32, permissions.rest)
             mtime == NextIf(Contains(f.val, ACMODTIME), TryGetU32, atime.rest)
         IN  IF f.ok /\ size.ok /\ uid.ok /\ gid.ok /\ permissions.ok
                /\ atime.ok /\ mtime.ok
             THEN Parsed(FileAttributes(size.val, uid.val, gid.val,
                                        permissions.val, atime.val, mtime.val,
                                        None),
                         mtime.rest)
             ELSE Failed

\* The attribute records given to the encoder: each field absent or
\* present with a value of its own, the name of the user absent or present.
AttrRecords ==
    {FileAttributes(size, uid, gid, permissions, atime, mtime, user) :
        size \in {None, Some(1)}, uid \in {None, Some(2)},
        gid \in {None, Some(3)}, permissions \in {None, Some(420)},
        atime \in {None, Some(5)}, mtime \in {None, Some(6)},
        user \in {None, Some(<<117>>)}}

\* The type byte of each variant of Packet (SSH_FXP_*).
PacketType ==
    [Init |-> 1, Version |-> 2, Open |-> 3, Close |-> 4, Read |-> 5,
     Write |-> 6, Lstat |-> 7, Fstat |-> 8, SetStat |-> 9, FSetStat |-> 10,
     OpenDir |-> 11, ReadDir |-> 12, Remove |-> 13, MkDir |-> 14,
     RmDir |-> 15, RealPath |-> 16, Stat |-> 17, Rename |-> 18,
     ReadLink |-> 19, Symlink |-> 20, Status |-> 101, Handle |-> 102,
     Data |-> 103, Name |-> 104, Attrs |-> 105, Extended |-> 200,
     ExtendedReply |-> 201]

PacketKinds == DOMAIN PacketType

\* The fields of each variant's struct, in order, by the way each is put on
\* the wire: u32, u64, str (String), osstr (OsString), bytes (Vec<u8>),
\* data (Vec<u8> with data_serialize), map (HashMap<String, String>), attrs
\* (FileAttributes), files (Vec<File>), code (StatusCode).
Layout(kind) ==
    CASE kind \in {"Init", "Version"} -> <<"u32", "map">>
      [] kind = "Open" -> <<"u32", "str", "u32", "attrs">>
      [] kind \in {"Close", "Fstat", "OpenDir", "ReadDir", "Remove", "RmDir",
                   "ReadLink", "Handle"} -> <<"u32", "str">>
      [] kind \in {"Lstat", "RealPath", "Stat"} -> <<"u32", "osstr">>
      [] kind = "MkDir" -> <<"u32", "osstr", "attrs">>
      [] kind = "Read" -> <<"u32", "str", "u64", "u32">>
      [] kind = "Write" -> <<"u32", "str", "u64", "bytes">>
      [] kind \in {"SetStat", "FSetStat"} -> <<"u32", "str", "attrs">>
      [] kind \in {"Rename", "Symlink"} -> <<"u32", "str", "str">>
      [] kind = "Status" -> <<"u32", "code", "str", "str">>
      [] kind = "Data" -> <<"u32", "bytes">>
      [] kind = "Name" -> <<"u32", "files">>
      [] kind = "Attrs" -> <<"u32", "attrs">>
      [] kind = "Extended" -> <<"u32", "str", "data">>
      [] kind = "ExtendedReply" -> <<"u32", "data">>

\* SerializeMap: each key and each value as a string, no count before them.
RECURSIVE PutMap(_)
PutMap(map) ==
    IF map = <<>> THEN <<>>
    ELSE PutStr(Head(map)[1]) \o PutStr(Head(map)[2]) \o PutMap(Tail(map))

\* HashMap::insert: the entry of a key that is there is replaced.
Insert(map, key, value) ==
    IF \E i \in DOMAIN map : map[i][1] = key
    THEN [i \in DOMAIN map |->
             IF map[i][1] = key THEN <<key, value>> ELSE map[i]]
    ELSE Append(map, <<key, value>>)

\* MapDeserializer: entries are read for as long as bytes remain.
RECURSIVE TryGetMap(_, _)
TryGetMap(map, b) ==
    IF b = <<>> THEN Parsed(map, b)
    ELSE LET key == TryGetBytes(b)
             value == TryGetBytes(key.rest)
         IN  IF key.ok /\ value.ok
             THEN TryGetMap(Insert(map, key.val, value.val), value.rest)
             ELSE Failed

\* File
File(filename, longname, attrs) ==
    [filename |-> filename, longname |-> longname, attrs |-> attrs]

\* The elements of a Vec<File>, after serialize_seq has put their number.
RECURSIVE PutFiles(_)
PutFiles(files) ==
    IF files = <<>> THEN <<>>
    ELSE PutStr(Head(files).filename) \o PutStr(Head(files).longname)
         \o SerializeAttrs(Head(files).attrs) \o PutFiles(Tail(files))

\* SeqDeserializer over a Vec<File>: n more elements are read.
RECURSIVE TryGetFiles(_, _, _)
TryGetFiles(n, files, b) ==
    IF n = 0 THEN Parsed(files, b)
    ELSE LET filename == TryGetBytes(b)
             longname == TryGetBytes(filename.rest)
             attrs == DeserializeAttrs(longname.rest)
         IN  IF filename.ok /\ longname.ok /\ attrs.ok
             THEN TryGetFiles(n - 1,
                              Append(files, File(filename.val, longname.val,
                                                 attrs.val)),
                              attrs.rest)
             ELSE Failed

\* StatusCode::from(u32): a number that is no status code is Failure (4).
StatusCodeFrom(value) == IF value <= 8 THEN value ELSE 4

\* What the Serializer puts for a field.  An OsString is serialized as a
\* newtype variant, of which serialize_newtype_variant writes the value
\* alone: the sequence of its bytes.
Put(type, v) ==
    CASE type \in {"u32", "code"} -> PutU32(v)
      [] type = "u64" -> PutU64(v)
      [] type \in {"str", "osstr", "bytes"} -> PutStr(v)
      [] type = "data" -> v
      [] type = "map" -> PutMap(v)
      [] type = "attrs" -> SerializeAttrs(v)
      [] type = "files" -> PutU32(Len(v)) \o PutFiles(v)

\* What the Deserializer reads for a field.  An OsString is deserialized as
\* an enum: variant_seed reads a u32 as the index of the variant, 0 is Unix,
\* whose value is then read as a sequence of bytes, and anything else fails.
TryGet(type, b) ==
    CASE type = "u32" -> TryGetU32(b)
      [] type = "code" ->
           LET code == TryGetU32(b)
           IN  IF code.ok THEN Parsed(StatusCodeFrom(code.val), code.rest)
               ELSE Failed
      [] type = "u64" -> TryGetU64(b)
      [] type \in {"str", "bytes"} -> TryGetBytes(b)
      [] type = "osstr" ->
           LET variant == TryGetU32(b)
           IN  IF variant.ok /\ variant.val = 0 THEN TryGetBytes(variant.rest)
               ELSE Failed
      [] type = "data" -> Parsed(b, <<>>)
      [] type = "map" -> TryGetMap(<<>>, b)
      [] type = "attrs" -> DeserializeAttrs(b)
      [] type = "files" ->
           LET count == TryGetU32(b)
           IN  IF count.ok THEN TryGetFiles(count.val, <<>>, count.rest)
               ELSE Failed

\* ser::to_bytes of a struct: its fields one after the other.
RECURSIVE ToBytes(_, _)
ToBytes(types, fields) ==
    IF types = <<>> THEN <<>>
    ELSE Put(Head(types), Head(fields)) \o ToBytes(Tail(types), Tail(fields))

\* de::from_bytes of a struct: as many fields as the struct has are read,
\* and what is left in the buffer after the last is not looked at.
RECURSIVE FromBytes(_, _, _)
FromBytes(types, fields, b) ==
    IF types = <<>> THEN Parsed(fields, b)
    ELSE LET field == TryGet(Head(types), b)
         IN  IF field.ok
             THEN FromBytes(Tail(types), Append(fields, field.val), field.rest)
             ELSE Failed

\* Packet
Packet(kind, fields) == [kind |-> kind, fields |-> fields]

\* TryFrom<Packet> for Bytes
PacketToBytes(packet) ==
    LET payload == ToBytes(Layout(packet.kind), packet.fields)
    IN  PutU32(Len(payload) + 1) \o <<PacketType[packet.kind]>> \o payload

\* TryFrom<&mut Bytes> for Packet
PacketFromBytes(b) ==
    IF b = <<>> THEN Failed
    ELSE IF \A kind \in PacketKinds : PacketType[kind] # b[1] THEN Failed
    ELSE LET kind == CHOOSE k \in PacketKinds : PacketType[k] = b[1]
             fields == FromBytes(Layout(kind), <<>>, Advance(b, 1))
         IN  IF fields.ok THEN Parsed(Packet(kind, fields.val), fields.rest)
             ELSE Failed

\* The values a field of each type is given.
Values(type) ==
    CASE type = "u32" -> {1, 258}
      [] type = "code" -> {0, 4}
      [] type = "u64" -> {5}
      [] type \in {"str", "osstr"} -> {<<>>, <<97>>}
      [] type = "bytes" -> {<<>>, <<1, 2>>}
      [] type = "data" -> {<<>>, <<9>>}
      [] type = "map" -> {<<>>, << <<<<97>>, <<49>>>> >>}
      [] type = "attrs" ->
           {FileAttributes(None, None, None, None, None, None, None),
            FileAttributes(Some(1), None, None, None, None, None, None),
            FileAttributes(Some(1), Some(2), Some(3), Some(420), Some(5),
                           Some(6), None)}
      [] type = "files" ->
           {<<>>,
            <<File(<<97>>, <<>>,
                   FileAttributes(None, None, None, Some(420), None, None,
                                  None))>>}

\* Every struct with the given fields.
RECURSIVE Structs(_)
Structs(types) ==
    IF types = <<>> THEN {<<>>}
    ELSE {<<v>> \o rest : v \in Values(Head(types)),
                          rest \in Structs(Tail(types))}

\* The packets given to the encoder.
Packets ==
    UNION {{Packet(kind, fields) : fields \in Structs(Layout(kind))} :
              kind \in PacketKinds}

\* The bytes that follow a packet in a frame body.
Extras == {<<>>, <<0>>, <<0, 0, 0, 0>>}

\* The rest of the model is frozen while the codec runs.
CodecFrame ==
    UNCHANGED <<requests, version, next_req_id, handles, limits, txq,
                txClosed, task, rx, last, drv, fil, rdir, sess, srv, reader,
                late>>

\* An attribute record is serialized.
EncodeAttrs(a) ==
    /\ codec.pc = "idle"
    /\ codec' = [codec EXCEPT
           !.pc = "attrs", !.value = a, !.bytes = SerializeAttrs(a)]
    /\ CodecFrame

\* The bytes of an attribute record are deserialized.
DecodeAttrs ==
    /\ codec.pc = "attrs"
    /\ codec' = [codec EXCEPT
           !.pc = "done-attrs", !.decoded = DeserializeAttrs(codec.bytes)]
    /\ CodecFrame

\* A packet is made into a frame.
EncodePacket(packet) ==
    /\ codec.pc = "idle"
    /\ codec' = [codec EXCEPT
           !.pc = "frame", !.value = packet, !.bytes = PacketToBytes(packet)]
    /\ CodecFrame

\* The body of the frame, which is the frame after its length, is made into
\* a packet, with nothing or something after it in the body.
DecodePacket(extra) ==
    /\ codec.pc = "frame"
    /\ codec' = [codec EXCEPT
           !.pc = "done-packet",
           !.extra = extra,
           !.decoded = PacketFromBytes(Advance(codec.bytes, 4) \o extra)]
    /\ CodecFrame

CodecNext ==
    \/ \E a \in AttrRecords : EncodeAttrs(a)
    \/ DecodeAttrs
    \/ \E packet \in Packets : EncodePacket(packet)
    \/ \E extra \in Extras : DecodePacket(extra)

CodecSpec == Init /\ [][CodecNext]_vars

\* ------------------------------------------------- reply typing, in isolation

\* The session at the await of send in each request method, its request
\* (the first of the session, id 0) answered with each reply packet: the
\* entry has been taken off the pending list and the packet is in the
\* caller's receiver.
TypingInit ==
    /\ requests = <<>>
    /\ version = Some(VERSION)
    /\ next_req_id = NextIdAfter(0)
    /\ handles = 0
    /\ limits = DefaultLimits
    /\ txq = <<>>
    /\ txClosed = FALSE
    /\ \E m \in TypedMethods, p \in TypedReplies :
          /\ task = [t \in Tasks |->
                       IF t = 1
                       THEN [pc |-> "waiting", method |-> m, id |-> Some(0)]
                       ELSE IdleTask]
          /\ rx = [t \in Tasks |->
                     IF t = 1 THEN RxVal(Out("Ok", "-", p)) ELSE RxEmpty]
    /\ last = Returned("reply", Some(0), Out("Ok", "-", NoPkt))
    /\ driver = "split"
    /\ eof = FALSE
    /\ eofReads = 0
    /\ rdEnded = FALSE
    /\ wire = <<>>
    /\ pushed = <<>>
    /\ file = NewFile
    /\ fsent = <<>>
    /\ fret = NoPoll
    /\ fdrop = "no"
    /\ rdir = NewReadDir
    /\ sess = NewSftp
    /\ srv = NewServer
    /\ reader = NewReader
    /\ codec = NewCodec
    /\ late = {}

TypingNext == \E t \in Tasks : Return(t)

TypingSpec == TypingInit /\ [][TypingNext]_vars

\* ----------------------------------------------------------------- claims

C2_ExactlyOnce ==
    [][ /\ \A p \in InPackets :
            DriverRead(p) =>
              /\ Cardinality({t \in Tasks : rx'[t] # rx[t]}) <= 1
              /\ (p.id # None /\ Position(requests, p.id) # 0) =>
                     /\ Position(requests', p.id) = 0
                     /\ Len(requests') = Len(requests) - 1
              /\ (p.id # None /\ Position(requests, p.id) = 0) =>
                     /\ rx' = rx
                     /\ requests' = requests
                     /\ last'.tag = "UnexpectedBehavior"
                     /\ last'.msg = "unknown recipient"
        /\ \A t \in Tasks :
            (Return(t) \/ Reap(t)) =>
              /\ last'.method = task[t].method
              /\ last'.tag \in {"Ok", "Status", "UnexpectedPacket",
                                "UnexpectedBehavior", "Timeout"}
              /\ ~Live(t)'
      ]_vars

\* A Handle reply was delivered to an open call (the counter shows it), no
\* request is pending, and a further packet carrying an id has just been
\* turned away as having no recipient.
C2_Witness ==
    /\ handles = 1
    /\ requests = <<>>
    /\ last.method = "reply"
    /\ last.id # None
    /\ last.msg = "unknown recipient"

\* C3: timeout.  A call of a request carrying an id that is waiting with an
\* empty receiver does not wait for ever: unless a reply with its id arrives
\* or the caller drops the call, it returns Error::Timeout; and in the step
\* in which a call returns Timeout, the pending list is left without an
\* entry for the call's id.
C3_Timeout ==
    /\ \A t \in Tasks :
          (task[t].pc = "waiting" /\ task[t].id # None /\ rx[t].st = "Empty")
            ~> \/ rx[t].st = "Val"
               \/ (task[t].pc = "idle" /\ last.tag = "Timeout")
               \/ (task[t].pc = "idle" /\ last = NoReturn)
    /\ [][ \A t \in Tasks :
             Reap(t) =>
               /\ last'.tag = "Timeout"
               /\ Position(requests', task[t].id) = 0 ]_vars

\* A read has just returned Timeout and nothing is pending.
C3_Witness ==
    /\ last.method = "read"
    /\ last.id # None
    /\ last.tag = "Timeout"
    /\ Position(requests, last.id) = 0

\* C4: pending-list hygiene.  In the state in which a call of a request
\* method that went through send has returned (with a reply, an error from
\* the driver, Timeout, a receive error, or a failed push onto the outbound
\* queue), the pending list holds no entry for that call's id.
C4_Hygiene ==
    (last.method \in (Methods \ {"init"}) /\ last.tag # "Limited") =>
        Position(requests, last.id) = 0

\* C6: no request frame pushed onto the outbound queue carries id 0.
C6_NonZeroId ==
    \A i \in 1..Len(txq) : txq[i].id # Some(0)

\* C7: handle accounting.  While max_open_handles = N is set, an open or
\* opendir called with the counter at N or above returns Limited and pushes
\* no frame, an open or opendir called below N is sent, and the counter,
\* once within N, never gets above N.
C7_HandleLimit ==
    [][ /\ \A t \in Tasks, m \in {"open", "opendir"} :
            (Open(t, m) /\ limits.open_handles # None) =>
                IF UGe(handles, limits.open_handles[1])
                THEN last'.tag = "Limited" /\ txq' = txq /\ requests' = requests
                ELSE txClosed \/ txq' = Append(txq, Frame(RequestKind(m),
                                                         Some(next_req_id), 0))
        /\ (/\ limits' = limits
            /\ limits.open_handles # None
            /\ UGe(limits.open_handles[1], handles))
               => UGe(limits.open_handles[1], handles')
      ]_vars

\* C8: the open-handle counter saturates at zero.  A close answered with
\* Status Ok while the counter is 0 leaves the counter at 0.
C8_SaturatingClose ==
    [][ \A t \in Tasks :
          (/\ Return(t)
           /\ task[t].method = "close"
           /\ rx[t].st = "Val"
           /\ rx[t].val.tag = "Ok"
           /\ rx[t].val.pkt.kind = "Status"
           /\ rx[t].val.pkt.code = "Ok"
           /\ handles = 0)
             => handles' = 0 ]_vars

\* C9: the open-handle counter changes only on success.  Every change of
\* the counter is an open or opendir that got a Handle reply (plus one) or
\* a close that got Status Ok (minus one).
C9_OnlyOnSuccess ==
    [][ handles' # handles =>
          \E t \in Tasks :
            /\ Return(t)
            /\ rx[t].st = "Val"
            /\ rx[t].val.tag = "Ok"
            /\ \/ /\ task[t].method \in {"open", "opendir"}
                  /\ rx[t].val.pkt.kind = "Handle"
                  /\ handles' = handles + 1
               \/ /\ task[t].method = "close"
                  /\ rx[t].val.pkt.kind = "Status"
                  /\ rx[t].val.pkt.code = "Ok"
                  /\ handles' = handles - 1 ]_vars

C11_ReplyTyping ==
    [][ \A t \in Tasks :
          (/\ Return(t)
           /\ task[t].method \in TypedMethods
           /\ rx[t].st = "Val"
           /\ rx[t].val.tag = "Ok")
            => LET m == task[t].method
                   p == rx[t].val.pkt
                   want == CASE m \in HandleMethods -> "Handle"
                             [] m \in DataMethods -> "Data"
                             [] m \in NameMethods -> "Name"
                             [] m \in AttrsMethods -> "Attrs"
                             [] m \in StatusMethods -> "Status"
                   matching == p.kind = want /\ (want = "Status" => p.code = "Ok")
                   failed == p.kind = "Status" /\ p.code # "Ok"
               IN  /\ (last'.tag = "Ok") <=> matching
                   /\ failed => /\ last'.tag = "Status"
                                /\ TypedResult(m, p).pkt = p
                   /\ (~matching /\ ~failed) => last'.tag = "UnexpectedPacket"
      ]_vars

\* C12: exactly one Version.  A Version packet is accepted only while no
\* version is recorded and an init call is pending: the version is recorded
\* and one init waiter is handed the packet as a success.  Every Version
\* packet that arrives once a version is recorded is rejected as
\* UnexpectedBehavior, is handed to no caller as a success and leaves the
\* recorded version alone; a recorded version never changes.
C12_OneVersion ==
    [][ /\ \A p \in InPackets :
            (DriverRead(p) /\ p.kind = "Version") =>
                IF version = None /\ Position(requests, None) # 0
                THEN /\ version' = Some(VERSION)
                     /\ last'.tag = "Ok"
                     /\ \A t \in Tasks :
                           rx'[t] # rx[t] =>
                              /\ task[t].method = "init"
                              /\ rx'[t] = RxVal(Out("Ok", "-", p))
                ELSE /\ version' = version
                     /\ last'.tag = "UnexpectedBehavior"
                     /\ \A t \in Tasks :
                           rx'[t] # rx[t] => rx'[t].val.tag # "Ok"
        /\ version # None => version' = version
      ]_vars

\* A version is recorded, and a further Version packet, for which an init
\* call was waiting, has just been rejected as a duplicate.
C12_Witness ==
    /\ version = Some(VERSION)
    /\ last = Returned("reply", None,
                        Out("UnexpectedBehavior", "Duplicate version", NoPkt))
    /\ \E t \in Tasks :
          /\ task[t].method = "init"
          /\ rx[t] = RxVal(Out("UnexpectedBehavior", "Duplicate version", NoPkt))

\* C13: Version comes first.  A reply carrying an id that arrives while no
\* version is recorded, and finds the entry of its id, is handed to nobody
\* as a success: the entry is removed, the waiter is handed
\* Error::UnexpectedPacket, and that is what its call returns.
C13_VersionFirst ==
    [][ /\ \A p \in InPackets :
            (/\ DriverRead(p)
             /\ p.id # None
             /\ version = None
             /\ Position(requests, p.id) # 0)
              => /\ Position(requests', p.id) = 0
                 /\ Len(requests') = Len(requests) - 1
                 /\ last'.tag = "UnexpectedPacket"
                 /\ \A t \in Tasks :
                       (task[t].pc = "waiting" /\ task[t].id = p.id) =>
                           rx'[t] = RxVal(Out("UnexpectedPacket", "-", NoPkt))
                 /\ \A t \in Tasks : rx'[t] # rx[t] => rx'[t].val.tag # "Ok"
        /\ \A t \in Tasks :
            (Return(t) /\ rx[t] = RxVal(Out("UnexpectedPacket", "-", NoPkt)))
              => last' = Returned(task[t].method, task[t].id,
                                  Out("UnexpectedPacket", "-", NoPkt))
      ]_vars

\* No version is recorded, a reply to an open has arrived all the same, and
\* the open has returned UnexpectedPacket with its entry gone.
C13_Witness ==
    /\ version = None
    /\ last.method = "open"
    /\ last.id # None
    /\ last.tag = "UnexpectedPacket"
    /\ Position(requests, last.id) = 0

\* C14: session close.  Once the driver has taken the empty sentinel off the
\* queue it has shut the write side down and ended: what it did to the
\* stream is, in order, every frame pushed before the sentinel, each written
\* whole, and then the shutdown; nothing pushed after the sentinel is
\* written, and nothing is written after the shutdown.
C14_SessionClose ==
    [][ /\ txClosed' =>
            \E k \in 1..Len(pushed') :
                /\ pushed'[k] = Sentinel
                /\ \A i \in 1..(k - 1) : pushed'[i] # Sentinel
                /\ Len(wire') = k
                /\ wire'[k] = Shutdown
                /\ \A i \in 1..(k - 1) : wire'[i] = Written(pushed'[i], TRUE)
        /\ txClosed => wire' = wire
      ]_vars

\* C15: a write error terminates the driver.  The step in which write_all
\* fails closes the outbound queue, and after a failed write the driver
\* takes no frame off the queue and writes nothing.
C15_WriteErrorStops ==
    [][ /\ (wire' # wire /\ ~wire'[Len(wire')].whole) => txClosed'
        /\ (\E i \in 1..Len(wire) : ~wire[i].whole) =>
               (wire' = wire /\ txClosed)
      ]_vars

\* C16: end of stream ends the driver.  After the read that found the read
\* side at end of stream the driver reads no more and writes no more.
C16_EofTerminates ==
    [][ eofReads >= 1 => (eofReads' = eofReads /\ wire' = wire) ]_vars

\* C18: the driver does not reorder.  While the driver runs, what it has
\* written is the frames pushed so far, in the order pushed, each whole and
\* once, up to those still waiting in the queue.
C18_NoReorder ==
    /\ \A i \in 1..Len(wire) :
          wire[i].op = "write_all" =>
              (i <= Len(pushed) /\ wire[i] = Written(pushed[i], TRUE))
    /\ ~txClosed =>
          /\ Len(wire) + Len(txq) = Len(pushed)
          /\ \A i \in 1..Len(txq) : txq[i] = pushed[Len(wire) + i]

\* C17: after the driver has ended and the outbound queue is closed, a call
\* of a request method that gets as far as the push returns at once, in the
\* same step, with Error::UnexpectedBehavior: it does not wait for a reply
\* or the timeout, and nothing is queued.  close_session on the closed queue
\* returns Ok and queues nothing.
C17_ClosedFailsFast ==
    [][ \A t \in Tasks :
          /\ (/\ txClosed
              /\ \/ InitCall(t)
                 \/ Close(t)
                 \/ \E m \in {"open", "opendir"} : Open(t, m)
                 \/ \E len \in Lens : Read(t, len) \/ Write(t, len)
              /\ last'.tag # "Limited")
               => /\ last'.tag = "UnexpectedBehavior"
                  /\ last'.method \in Methods
                  /\ ~Live(t)'
                  /\ txq' = txq
          /\ (txClosed /\ CloseSession(t))
               => /\ last' = Returned("close_session", None,
                                      Out("Ok", "-", NoPkt))
                  /\ txq' = txq
                  /\ txClosed'
      ]_vars

\* The queue is closed and a read has just failed at the push.
C17_Witness ==
    /\ txClosed
    /\ last.method = "read"
    /\ last.tag = "UnexpectedBehavior"
    /\ last.msg = "SendError"
    /\ \A t \in Tasks : ~Live(t)

\* C19: a bad inbound frame does not break the session.  A frame that does
\* not decode, a request packet, or a reply whose id has no pending entry
\* is reported as an error and changes nothing: the pending list, the
\* receivers and the recorded version stay as they were and the reader goes
\* on; the reply that arrives next for a pending request is delivered to
\* its waiter.
C19_BadFrameHarmless ==
    [][ /\ \A p \in InPackets \cup BadFrames :
            (/\ \/ p \in BadFrames
                \/ (p.id # None /\ Position(requests, p.id) = 0)
             /\ last'.id = p.id
             /\ DriverRead(p))
              => /\ last'.tag = "UnexpectedBehavior"
                 /\ requests' = requests
                 /\ rx' = rx
                 /\ version' = version
                 /\ ReaderRunning'
        /\ \A p \in InPackets, t \in Tasks :
            (/\ last.method \in {"execute_handler", "reply"}
             /\ last.tag = "UnexpectedBehavior"
             /\ version # None
             /\ p.id # None
             /\ task[t].pc = "waiting"
             /\ task[t].id = p.id
             /\ rx[t].st = "Empty"
             /\ DriverRead(p))
              => /\ rx'[t] = RxVal(Out("Ok", "-", p))
                 /\ Position(requests', p.id) = 0
      ]_vars

\* A request packet carrying the id of a pending request has just been
\* refused; the request is still pending and its caller still waiting.
C19_Witness ==
    /\ last.method = "execute_handler"
    /\ last.id # None
    /\ last.tag = "UnexpectedBehavior"
    /\ Position(requests, last.id) # 0
    /\ \E t \in Tasks :
          task[t].pc = "waiting" /\ task[t].id = last.id /\ rx[t].st = "Empty"

\* C20: write chunking.  A poll_write made with no write in flight, with a
\* buffer of L bytes and max_write_len M, asks the session for one Write of
\* exactly min(L, M) bytes at offset pos; when that Write has been answered
\* with Status Ok, the poll_write with that buffer returns min(L, M) and
\* moves pos on by exactly that much.  With L = 10 M the result is M.
C20_WriteChunking ==
    [][ \A L \in BufLens :
          PollWrite(L) =>
            LET M == MaxWriteLen(limits)
                n == IF L < M THEN L ELSE M
            IN  /\ (file.f_write = None /\ ~txClosed) =>
                      /\ fsent' = Append(fsent, [kind |-> "Write",
                                                 offset |-> file.pos,
                                                 len |-> n])
                      /\ fret' = Polled("poll_write", L, "Pending", 0)
                      /\ file'.pos = file.pos
                /\ (/\ file.f_write # None
                    /\ file.f_write[1].st = "done"
                    /\ file.f_write[1].out.tag = "Ok"
                    /\ file.f_write[1].data_len = L) =>
                      /\ fret' = Polled("poll_write", L, "Ok", n)
                      /\ file'.pos = file.pos + n
                      /\ file'.f_write = None
                      /\ fsent' = fsent
                      /\ fsent[Len(fsent)] = [kind |-> "Write",
                                              offset |-> file.pos, len |-> n]
      ]_vars

\* The server reported max_write_len 2; a poll_write with a buffer of 20
\* bytes has returned 2, after an earlier write had moved pos.
C20_Witness ==
    /\ limits.write_len = Some(2)
    /\ fret = Polled("poll_write", 20, "Ok", 2)
    /\ file.pos > 2
    /\ file.f_write = None

\* C21: read at end of stream.  When the Read a poll_read has in flight was
\* answered with Status Eof, the poll_read that takes the answer returns
\* Ready(Ok) with nothing added to the caller's buffer, leaves pos as it was
\* and leaves the read slot empty.
C21_ReadEof ==
    [][ \A rem \in RemLens :
          (/\ file.f_read # None
           /\ file.f_read[1].st = "done"
           /\ file.f_read[1].out.tag = "Status"
           /\ file.f_read[1].out.pkt.code = "Eof"
           /\ PollRead(rem)) =>
            /\ fret' = Polled("poll_read", rem, "Ok", 0)
            /\ file'.pos = file.pos
            /\ file'.f_read = None
            /\ fsent' = fsent
      ]_vars

\* A poll_read has returned Ok with zero bytes after an earlier read had
\* moved pos, and the server had been asked for a Read at that pos.
C21_Witness ==
    /\ fret = Polled("poll_read", 2, "Ok", 0)
    /\ file.pos = 2
    /\ file.f_read = None
    /\ Len(fsent) = 2
    /\ fsent[2].offset = 2

\* C22: read chunking.  A poll_read made with no read in flight, with rem
\* bytes of space and max_read_len M, asks the session for one Read of
\* min(rem, M) bytes at offset pos; when a Data reply of k bytes has answered
\* it, the poll_read that takes the answer appends exactly k bytes, moves pos
\* by exactly k, and k is no more than the space left in the buffer.
C22_ReadChunking ==
    [][ \A rem \in RemLens :
          PollRead(rem) =>
            LET M == MaxReadLen(limits)
                n == IF rem < M THEN rem ELSE M
            IN  /\ (file.f_read = None /\ ~txClosed) =>
                      /\ fsent' = Append(fsent, [kind |-> "Read",
                                                 offset |-> file.pos,
                                                 len |-> n])
                      /\ fret' = Polled("poll_read", rem, "Pending", 0)
                      /\ file'.pos = file.pos
                /\ (/\ file.f_read # None
                    /\ file.f_read[1].st = "done"
                    /\ file.f_read[1].out.tag = "Ok") =>
                      LET k == file.f_read[1].out.pkt.len
                      IN  /\ k <= rem
                          /\ fret' = Polled("poll_read", rem, "Ok", k)
                          /\ file'.pos = file.pos + k
                          /\ file'.f_read = None
      ]_vars

\* C27: one Write in flight.  A poll_write made while the File's Write is
\* pending sends nothing and returns Pending; a Write is sent only with the
\* write slot empty, that is after a poll_write has returned the outcome of
\* the one before; and when that outcome was a success the new Write's offset
\* is the previous offset plus the previous chunk length.
C27_OneWriteInFlight ==
    [][ /\ \A L \in BufLens :
            (/\ file.f_write # None
             /\ file.f_write[1].st = "sent"
             /\ PollWrite(L)) =>
               /\ fsent' = fsent
               /\ fret' = Polled("poll_write", L, "Pending", 0)
               /\ file' = file
        /\ fsent' # fsent =>
              /\ file.f_write = None
              /\ Len(fsent') = Len(fsent) + 1
              /\ Len(fsent) > 0 =>
                    /\ fret.op = "poll_write"
                    /\ fret.res \in {"Ok", "Err"}
                    /\ fret.res = "Ok" =>
                          fsent'[Len(fsent')].offset =
                              fsent[Len(fsent)].offset + fsent[Len(fsent)].len
      ]_vars

\* A second Write, made for a buffer of 2 bytes, is in flight at the offset
\* the first, answered with Status Ok, had moved pos to, and a poll_write
\* with another buffer has found it pending.
C27_Witness ==
    /\ Len(fsent) = 2
    /\ fsent[1] = [kind |-> "Write", offset |-> 0, len |-> 2]
    /\ fsent[2].offset = 2
    /\ file.pos = 2
    /\ file.f_write # None
    /\ file.f_write[1].st = "sent"
    /\ file.f_write[1].data_len = 2
    /\ fret = Polled("poll_write", 3, "Pending", 0)

\* C24: one seek at a time.  start_seek fails with the pending error exactly
\* when the seek slot is taken, and then changes neither the slot nor pos;
\* a poll_complete that returns Ready for a seek, with Ok or with an error,
\* leaves the seek slot empty, so that the next start_seek is accepted.
C24_SeekSlot ==
    [][ /\ \A position \in SeekFroms :
            StartSeek(position) =>
              /\ (fret'.res = "ErrPending") <=> (file.f_seek # None)
              /\ fret'.res = "ErrPending" => file' = file
        /\ \A wraps \in BOOLEAN :
            (/\ file.f_seek # None
             /\ PollComplete(wraps)
             /\ fret'.res \in {"Ok", "Err"}) =>
               file'.f_seek = None
      ]_vars

\* C25: seek arithmetic.  A poll_complete that finishes a seek sets pos to o
\* for Start(o), to pos + d for Current(d) and to size + d for End(d), size
\* being the size of the Attrs that answered the one Fstat; when that
\* position is negative, or the End seek got no size, it returns an error
\* and leaves pos as it was.  Only an End seek sends a request.
C25_SeekArithmetic ==
    [][ \A wraps \in BOOLEAN :
          (/\ file.f_seek # None
           /\ file.f_seek[1].st # "finished"
           /\ PollComplete(wraps)) =>
            LET f == file.f_seek[1]
                sized == f.out.tag = "Ok" /\ f.out.pkt.size # None
                target == CASE f.position.whence = "Start" -> f.position.n
                            [] f.position.whence = "Current" ->
                                  file.pos + f.position.n
                            [] f.position.whence = "End" ->
                                  IF sized
                                  THEN f.out.pkt.size[1] + f.position.n
                                  ELSE -1
            IN  /\ fsent' # fsent =>
                      /\ f.position.whence = "End"
                      /\ f.st = "new"
                      /\ fsent' = Append(fsent, [kind |-> "Fstat"])
                /\ fret'.res # "Pending" =>
                      IF target < 0
                      THEN /\ fret'.res = "Err"
                           /\ file'.pos = file.pos
                      ELSE /\ fret' = Polled("poll_complete", 0, "Ok", target)
                           /\ file'.pos = target
      ]_vars

\* C23: the File closes its handle at most once.  The requests the File has
\* made hold at most one Close; a Drop after a completed poll_shutdown
\* spawns nothing and no request follows it; a Drop without a completed
\* shutdown, with an executor at hand, spawns the close task, which sends
\* exactly one Close.
C23_CloseOnce ==
    [][ /\ CloseCount(fsent') <= 1
        /\ \A executor \in BOOLEAN :
              (file.closed /\ Drop(executor)) => fdrop' = "done"
        /\ (~file.closed /\ Drop(TRUE)) => fdrop' = "spawned"
        /\ (~txClosed /\ SpawnedClose) =>
              fsent' = Append(fsent, [kind |-> "Close"])
        /\ fdrop = "done" => fsent' = fsent
      ]_vars

\* C26: flush.  Without fsync@openssh.com a poll_flush returns Ok at once,
\* sends nothing and changes nothing of the File.  With it, a poll_flush
\* with no flush in flight sends one fsync extended request, one that finds
\* the flush pending sends nothing, and the one that takes the answer
\* returns Ok exactly when the reply is a Status with code Ok.
C26_Flush ==
    [][ PollFlush =>
          /\ ~file.fsync =>
                /\ fret' = Polled("poll_flush", 0, "Ok", 0)
                /\ file' = file
                /\ fsent' = fsent
          /\ (file.fsync /\ file.f_flush = None /\ ~txClosed) =>
                /\ fsent' = Append(fsent, [kind |-> "Extended",
                                           request |-> "fsync@openssh.com"])
                /\ fret' = Polled("poll_flush", 0, "Pending", 0)
          /\ (file.fsync /\ file.f_flush # None) =>
                /\ fsent' = fsent
                /\ file.f_flush[1].st = "sent" =>
                      fret' = Polled("poll_flush", 0, "Pending", 0)
                /\ file.f_flush[1].st = "done" =>
                      /\ fret'.res \in {"Ok", "Err"}
                      /\ fret'.res = "Ok" <=>
                            /\ file.f_flush[1].reply.kind = "Status"
                            /\ file.f_flush[1].reply.code = "Ok"
                      /\ file'.f_flush = None
      ]_vars

\* With the extension advertised a poll_flush has returned Ok, one fsync
\* request having been sent and answered.
C26_Witness ==
    /\ file.fsync
    /\ fret = Polled("poll_flush", 0, "Ok", 0)
    /\ fsent = <<[kind |-> "Extended", request |-> "fsync@openssh.com"]>>
    /\ file.f_flush = None

\* C28: read_dir.  When read_dir has returned its iterator it has sent
\* OpenDir, then only ReadDir, then Close, and nothing else; before that it
\* has sent no Close unless a readdir was answered with Status Eof.  The
\* iterator never yields "." or "..", and what it has yielded together with
\* what it has yet to yield is every other entry of the Name replies, each
\* exactly once.
C28_ReadDir ==
    LET visible(q) == {i \in DOMAIN q : q[i].name \notin {".", ".."}}
        members(q, dom) == {q[i] : i \in dom}
    IN  /\ rdir.pc \in {"opendir", "readdir"} =>
              \A i \in DOMAIN rdir.sent : rdir.sent[i].kind # "Close"
        /\ rdir.pc \in {"close", "done"} =>
              /\ Len(rdir.sent) >= 3
              /\ rdir.sent[1].kind = "OpenDir"
              /\ rdir.sent[Len(rdir.sent)].kind = "Close"
              /\ \A i \in 2..(Len(rdir.sent) - 1) : rdir.sent[i].kind = "ReadDir"
        /\ rdir.pc = "done" =>
              /\ visible(rdir.yielded) = DOMAIN rdir.yielded
              /\ members(rdir.yielded, DOMAIN rdir.yielded)
                    \cup members(rdir.entries, visible(rdir.entries))
                    = members(rdir.got, visible(rdir.got))
              /\ Len(rdir.yielded) + Cardinality(visible(rdir.entries))
                    = Cardinality(visible(rdir.got))

\* Two Name replies, one of them with ".." in it, had come before the
\* Status Eof, and the iterator has been run to its end.
C28_Witness ==
    /\ rdir.pc = "done"
    /\ rdir.entries = <<>>
    /\ Len(rdir.sent) = 5
    /\ Len(rdir.got) = 4
    /\ Len(rdir.yielded) = 3
    /\ \E i \in DOMAIN rdir.got : rdir.got[i].name = ".."

\* C29: construction order.  SftpSession::new sends Init first and has sent
\* nothing else while it waits for the Version; once the Version is there it
\* has sent the limits request exactly if the Version has
\* limits@openssh.com = "1", and nothing besides; when it has returned, the
\* limits of the raw session are those given to the files (none on either
\* side when none were asked for), and each is unset where the server
\* reported 0 and the reported value otherwise.
C29_Construction ==
    LET limitsReq == [kind |-> "Extended", request |-> "limits@openssh.com"]
        stored(v) == IF v = 0 THEN None ELSE Some(v)
    IN  /\ sess.pc = "idle" => sess.sent = <<>>
        /\ sess.pc = "init" => sess.sent = <<[kind |-> "Init"]>>
        /\ sess.pc \in {"limits", "done"} =>
              /\ sess.advertised # None
              /\ version # None
              /\ sess.sent = IF sess.advertised[1].limits = "1"
                             THEN <<[kind |-> "Init"], limitsReq>>
                             ELSE <<[kind |-> "Init"]>>
        /\ sess.pc = "done" =>
              /\ sess.ext_limits # None => sess.ext_limits[1] = limits
              /\ sess.ext_limits = None => limits = DefaultLimits
              /\ (sess.ext_limits # None) <=> (sess.advertised[1].limits = "1")
              /\ sess.reported # None =>
                    /\ limits.read_len = stored(sess.reported[1].max_read_len)
                    /\ limits.write_len = stored(sess.reported[1].max_write_len)
                    /\ limits.open_handles =
                          stored(sess.reported[1].max_open_handles)

\* new() has returned after a limits request that the server answered with
\* a read limit of 0 and a write limit of 3.
C29_Witness ==
    /\ sess.pc = "done"
    /\ Len(sess.sent) = 2
    /\ sess.reported # None
    /\ sess.reported[1].max_read_len = 0
    /\ sess.reported[1].max_write_len = 3
    /\ limits.read_len = None
    /\ limits.write_len = Some(3)
    /\ sess.ext_limits = Some(limits)

\* C30: request/response pairing.  What the server does to its stream is
\* read, write, read, write, ...: after every frame it read it writes one
\* response before it reads again.  The response written for a request that
\* has an id carries that id, whether the handler returned a reply packet or
\* an error, and for an error it is a Status with the handler's status code.
C30_Pairing ==
    \A i \in DOMAIN srv.log :
        LET e == srv.log[i]
        IN  /\ e.ev = "read" <=> i % 2 = 1
            /\ (i = Len(srv.log) /\ e.ev = "read") => srv.pc = "responding"
            /\ (e.ev = "write" /\ srv.log[i - 1].pkt.kind \in RequestKinds
                  /\ srv.log[i - 1].pkt.id # None) =>
                  /\ e.pkt.id = srv.log[i - 1].pkt.id
                  /\ ~e.result.ok =>
                        e.pkt = Pkt("Status", srv.log[i - 1].pkt.id, e.result.code)

\* C31: server decode failure.  When the frame the server read does not
\* decode, or decodes to a packet that is no request, no method of the
\* Handler is called, the response handed to the stream is
\* Status{id: 0, code: BadMessage}, and the loop goes on to read the next
\* frame.
C31_DecodeFailure ==
    \A i \in DOMAIN srv.log :
        LET e == srv.log[i]
        IN  (e.ev # "read" /\ srv.log[i - 1].pkt.kind \notin RequestKinds) =>
               /\ e.result = HandlerErr("-")
               /\ e.pkt = Pkt("Status", Some(0), "BadMessage")
               /\ IF i = Len(srv.log) THEN srv.pc = "reading"
                  ELSE srv.log[i + 1].ev = "read"

\* A frame that does not decode and a Handle have both been answered, and
\* the second was read after the first was answered.
C31_Witness ==
    /\ Len(srv.log) = 4
    /\ srv.log[1].pkt.kind = "Undecodable"
    /\ srv.log[2].ev = "write"
    /\ srv.log[3].pkt.kind = "Handle"
    /\ srv.log[4].ev = "write"
    /\ srv.pc = "reading"

\* C32: frame length bound.  A frame reader configured with maximum length N
\* rejects a frame whose length header is greater than N with BadMessage
\* before it makes a buffer for the body or reads a byte of it, rejects a
\* frame of length zero, and accepts a frame whose length header is N.
C32_FrameBound ==
    /\ (reader.pc # "header" /\ reader.res # "Err"
          /\ reader.length > reader.max_len) =>
           /\ reader.res = "BadMessage"
           /\ reader.allocated = 0
           /\ reader.got = 0
    /\ (reader.pc = "done" /\ reader.length = 0 /\ reader.avail > 0) =>
           reader.res # "Ok"
    /\ (reader.pc = "done" /\ reader.length = reader.max_len
          /\ reader.avail >= reader.length) =>
           reader.res = "Ok"

\* C33: the server loop ends at end of stream.  Once a read has found the
\* stream at its end the loop has stopped, and nothing has been read,
\* handled or written since; a read or write that failed otherwise has been
\* logged and has not stopped the loop.
C33_EndOfStream ==
    /\ srv.eof => /\ srv.pc = "ended"
                  /\ Len(srv.log) = srv.eofAt
    /\ (srv.warned /\ ~srv.eof) => srv.pc # "ended"

\* C35: attribute round trip.  For an attribute record that carries a subset
\* of size, the pair uid and gid, permissions and the pair atime and mtime,
\* the encoder writes a flag word with exactly the bits of that subset,
\* then exactly those fields in the order size, uid, gid, permissions,
\* atime, mtime, and the decoder makes of these bytes a record with the same
\* fields and values.
C35_AttrRoundTrip ==
    LET a == codec.value
        b == codec.bytes
        size == IF a.size # None THEN 1 ELSE 0
        uidgid == IF a.uid # None THEN 1 ELSE 0
        permissions == IF a.permissions # None THEN 1 ELSE 0
        acmodtime == IF a.atime # None THEN 1 ELSE 0
        at_uid == 4 + 8 * size
        at_permissions == at_uid + 8 * uidgid
        at_atime == at_permissions + 4 * permissions
        d == codec.decoded
    IN  (codec.pc = "done-attrs"
           /\ (a.uid = None <=> a.gid = None)
           /\ (a.atime = None <=> a.mtime = None)) =>
           /\ TryGetU32(b).val
                = size + 2 * uidgid + 4 * permissions + 8 * acmodtime
           /\ Len(b) = at_atime + 8 * acmodtime
           /\ size = 1 => TryGetU64(Advance(b, 4)).val = a.size[1]
           /\ uidgid = 1 =>
                 /\ TryGetU32(Advance(b, at_uid)).val = a.uid[1]
                 /\ TryGetU32(Advance(b, at_uid + 4)).val = a.gid[1]
           /\ permissions = 1 =>
                 TryGetU32(Advance(b, at_permissions)).val = a.permissions[1]
           /\ acmodtime = 1 =>
                 /\ TryGetU32(Advance(b, at_atime)).val = a.atime[1]
                 /\ TryGetU32(Advance(b, at_atime + 4)).val = a.mtime[1]
           /\ d.ok
           /\ d.rest = <<>>
           /\ d.val.size = a.size
           /\ d.val.uid = a.uid
           /\ d.val.gid = a.gid
           /\ d.val.permissions = a.permissions
           /\ d.val.atime = a.atime
           /\ d.val.mtime = a.mtime

\* A record with permissions and the two times, and neither size nor uid
\* and gid, has gone through the encoder and the decoder.
C35_Witness ==
    /\ codec.pc = "done-attrs"
    /\ codec.value.size = None
    /\ codec.value.uid = None
    /\ codec.value.gid = None
    /\ codec.value.permissions = Some(420)
    /\ codec.value.atime = Some(5)
    /\ codec.value.mtime = Some(6)
    /\ codec.decoded.ok
    /\ codec.decoded.val.permissions = Some(420)

\* C34: codec round trip.  For a packet of any of the 27 variants, the u32
\* at the head of its frame is the length of the payload plus one (the type
\* byte is counted, the length itself is not), the decoder makes of the
\* frame's body a packet equal to the one encoded, and a body with bytes
\* after the packet is rejected.
C34_RoundTrip ==
    codec.pc = "done-packet" =>
       /\ TryGetU32(codec.bytes).val = Len(codec.bytes) - 4
       /\ Len(codec.bytes) - 4
            = Len(ToBytes(Layout(codec.value.kind), codec.value.fields)) + 1
       /\ codec.bytes[5] = PacketType[codec.value.kind]
       /\ codec.extra = <<>> =>
             /\ codec.decoded.ok
             /\ codec.decoded.val = codec.value
       /\ codec.extra # <<>> => ~codec.decoded.ok

\* C36: cancellation.  A caller that drops its call leaves the call's entry
\* in the pending list.  When the reply to it arrives, the driver takes that
\* entry out and no other, hands the reply to nobody, reports no error for
\* the hand-over that failed (reply returns what the validation gave), and
\* the reader goes on reading.
C36_Cancellation ==
    [][ /\ \A t \in Tasks :
            (Live(t) /\ Cancel(t)) =>
               [i \in DOMAIN requests' |-> requests'[i].id]
                 = [i \in DOMAIN requests |-> requests[i].id]
        /\ \A p \in InPackets :
            (/\ \E i \in DOMAIN requests : requests[i].id = p.id
             /\ LET idx == CHOOSE i \in DOMAIN requests :
                              /\ requests[i].id = p.id
                              /\ \A j \in 1..(i - 1) : requests[j].id # p.id
                IN  requests[idx].tx = None
             /\ DriverRead(p)) =>
               LET idx == CHOOSE i \in DOMAIN requests :
                             /\ requests[i].id = p.id
                             /\ \A j \in 1..(i - 1) : requests[j].id # p.id
               IN  /\ requests' = SubSeq(requests, 1, idx - 1)
                                   \o SubSeq(requests, idx + 1, Len(requests))
                   /\ rx' = rx
                   /\ last'.method = "reply"
                   /\ last'.tag = Handover(Validate(p.id, version), NoPkt).tag
                   /\ last'.msg # "unknown recipient"
                   /\ ReaderRunning'
      ]_vars

\* The reply to a cancelled call (id 0) has just been taken by the driver:
\* reply returned Ok, no receiver holds anything, and the call that was
\* issued after it (id 1) still waits with its entry in the list.
C36_Witness ==
    /\ last = Returned("reply", Some(0), Out("Ok", "-", NoPkt))
    /\ \A t \in Tasks : rx[t].st = "Empty"
    /\ \E t \in Tasks : task[t].pc = "waiting" /\ task[t].id = Some(1)
    /\ \E i \in DOMAIN requests :
          requests[i].id = Some(1) /\ requests[i].tx # None

\* C37: a failed poll_write is not retried and does not move the position.
\* When poll_write returns an error (the Write was answered by a Status that
\* is not Ok or by another packet, timed out, or could not be sent), pos is
\* what it was, the write slot is empty and nothing has been sent again; the
\* poll_write that follows makes a new Write at the unchanged pos.
C37_NoRetry ==
    [][ \A buflen \in BufLens :
          PollWrite(buflen) =>
             /\ fret'.res = "Err" =>
                   /\ file'.pos = file.pos
                   /\ file'.f_write = None
                   /\ fsent' = fsent
             /\ (fret.op = "poll_write" /\ fret.res = "Err" /\ ~txClosed) =>
                   /\ Len(fsent') = Len(fsent) + 1
                   /\ fsent'[Len(fsent')].kind = "Write"
                   /\ fsent'[Len(fsent')].offset = file.pos
                   /\ file'.pos = file.pos
      ]_vars

\* A first Write moved pos, a second at the new pos failed, and a third has
\* been sent at the same pos as the second.
C37_Witness ==
    /\ Len(fsent) = 3
    /\ fsent[1].offset = 0
    /\ fsent[2].offset = fsent[1].len
    /\ fsent[3].offset = fsent[2].offset
    /\ file.pos = fsent[3].offset
    /\ file.f_write # None

\* C38: read_dir does not leak the directory handle.  When read_dir has
\* returned after its OpenDir was answered with a Handle (so that a ReadDir
\* went out), whether with the iterator or with an error, a Close has been
\* sent and the open-handle counter is what it was before the call.
C38_NoHandleLeak ==
    (rdir.pc \in {"done", "failed"} /\ Len(rdir.sent) >= 2) =>
        /\ \E i \in DOMAIN rdir.sent : rdir.sent[i].kind = "Close"
        /\ handles = 0

\* C39: a late reply is discarded.  When the reader loop takes in a reply
\* whose id is that of a call of send that has returned Timeout, no receiver
\* gets anything, the pending list is what it was, and reply() returns
\* UnexpectedBehavior (unknown recipient).
C39_LateReply ==
    [][ \A packet \in InPackets :
          (DriverRead(packet) /\ IsReplyKind(packet.kind)
                              /\ packet.id \in late) =>
             /\ rx' = rx
             /\ requests' = requests
             /\ last' = Returned("reply", packet.id,
                           Out("UnexpectedBehavior", "unknown recipient",
                               NoPkt))
      ]_vars

\* C40: File I/O never trips the session's own limits.  Whatever the buffer
\* and whatever limits were negotiated, a poll_write or poll_read that finds
\* its slot empty asks the session, if the session is open, for a length
\* that is at most the session's write_len or read_len when that is set and
\* at most 261120 when it is not, and at most what the buffer holds or has
\* room for; the request is sent, and the poll returns an error only when
\* the session's queue is closed.
C40_WithinLimits ==
    [][ LET bound(l, default) == IF l = None THEN default ELSE l[1]
            asked == fsent'[Len(fsent')]
        IN  /\ \A buflen \in IoLens :
                 (PollWrite(buflen) /\ file.f_write = None) =>
                    /\ fret'.res = "Err" <=> txClosed
                    /\ ~txClosed =>
                          /\ Len(fsent') = Len(fsent) + 1
                          /\ asked.kind = "Write"
                          /\ asked.len <= bound(limits.write_len, 261120)
                          /\ asked.len <= buflen
                          /\ ~WriteLimited(limits, asked.len)
            /\ \A rem \in IoLens :
                 (PollRead(rem) /\ file.f_read = None) =>
                    /\ fret'.res = "Err" <=> txClosed
                    /\ ~txClosed =>
                          /\ Len(fsent') = Len(fsent) + 1
                          /\ asked.kind = "Read"
                          /\ asked.len <= bound(limits.read_len, 261120)
                          /\ asked.len <= rem
                          /\ ~ReadLimited(limits, asked.len)
      ]_vars

\* Under negotiated limits a buffer above the write limit has gone out as a
\* Write of exactly the limit and a ReadBuf with more room than the read
\* limit as a Read of exactly the limit, and neither poll failed.
C40_Witness ==
    /\ limits.write_len # None
    /\ limits.read_len # None
    /\ Len(fsent) = 2
    /\ fsent[1] = [kind |-> "Write", offset |-> 0,
                   len |-> limits.write_len[1]]
    /\ fsent[2].kind = "Read"
    /\ fsent[2].len = limits.read_len[1]
    /\ fret = Polled("poll_read", 3, "Pending", 0)
    /\ file.f_write # None
    /\ file.f_write[1].data_len = 261121

====
